---- MODULE Spec2Model ----
(***************************************************************************)
(* Persistence and delta core of the documentation consistency analyzer:   *)
(* the IndexedDB stores (projects, analyses, issues) as written by         *)
(* saveAnalysis and updateIssueStatus, and computeDelta reading them back. *)
(* One project is modelled, so every record carries the same projectId and *)
(* an index lookup by projectId returns the whole store in key order.      *)
(***************************************************************************)
EXTENDS Integers, Sequences, FiniteSets, TLC

\* ---------------------------------------------------------------- bounds
NumFingerprints == 2
MaxIssues == 2
MaxRuns == 3
MaxStored == 3
MaxStatusUpdates == 2
MaxCalls == 2
MaxHigh == 11
MaxMedium == 2
MaxLow == 2
MaxFiles == 8
MaxTokens == 3
MaxNumber == 2
MaxRunFiles == 2
MaxThrowing == 1
MaxPageCalls == 2
MaxLinkSegments == 3
MaxLinks == 2
MaxLines == 4
MaxDocLines == 2
MaxConcurrency == 4
MaxReadFiles == 6
MaxTasks == 3
MaxHashes == 2
MaxTimers == 2
MaxPending == 2

Fingerprints == 1..NumFingerprints
Severities == {"high", "medium", "low"}
Statuses == {"open", "resolved", "ignored"}

\* Primary keys of the analyses and issues stores.  A key is an opaque
\* identifier; the only thing the stores observe about it is its sort order.
AnalysisIds == 1..MaxRuns
IssueIds == 1..MaxStored

\* Concurrent saveAnalysis calls (two tabs of the page on one project).
Calls == 1..MaxCalls

\* metadata.coveragePercentage is optional.
Undefined == -1

\* AnalysisResult.metadata values an analysis can produce.
Metadatas == { [totalFiles |-> 3, coveragePercentage |-> Undefined] }

\* Severities a detector can report for an issue of a given fingerprint: the
\* fingerprint covers type, path and message but not the severity, which can
\* change between runs for the first fingerprint and is fixed for the others.
SeveritiesOf(fingerprint) ==
  IF fingerprint = 1 THEN {"high", "low"}
  ELSE IF fingerprint % 2 = 0 THEN {"medium"}
  ELSE {"low"}

Inconsistencies ==
  { i \in [fingerprint : Fingerprints, severity : Severities] :
      i.severity \in SeveritiesOf(i.fingerprint) }

RECURSIVE SeqsUpTo(_, _)
SeqsUpTo(S, n) ==
  IF n = 0 THEN { <<>> }
  ELSE LET shorter == SeqsUpTo(S, n - 1)
       IN shorter \cup { Append(s, x) : s \in { t \in shorter : Len(t) = n - 1 }, x \in S }

AnalysisResults ==
  [inconsistencies : SeqsUpTo(Inconsistencies, MaxIssues), metadata : Metadatas]

NoResult == [inconsistencies |-> <<>>, metadata |-> [totalFiles |-> 0, coveragePercentage |-> Undefined]]
NoDelta == [computed |-> FALSE]

VARIABLES
  project,             \* projects store: analysisCount of the project (0 = no record)
  analyses,            \* analyses store: set of StoredAnalysis
  issues,              \* issues store: set of StoredIssue
  now,                 \* wall clock used for timestamps
  currentResult,       \* AnalysisResult of the latest analysis held by the page
  delta,               \* DeltaSummary last returned by computeDelta, or NoDelta
  everMarkedResolved,  \* history: fingerprints whose stored issue was ever set to resolved
  statusUpdates,       \* number of updateIssueStatus calls so far
  saves,               \* saveAnalysis calls in flight: locals and position of each
  healthInput,         \* AnalysisResult handed to calculateHealthScore
  healthScore,         \* what calculateHealthScore returned for it, or NoScore
  issueA,              \* two issues handed to generateIssueFingerprint
  issueB,
  fingerprints,        \* <<fingerprint of issueA, fingerprint of issueB>>, or <<>>
  run,                 \* one analyzeProject / analyzeProjectWithWorkers call
  page,                \* state of the page component (page.tsx) and its handler in flight
  linkCheck,           \* one validateLinks call: its arguments and what it returned
  numerical,           \* one pass of the numerical consistency detector
  coverage,            \* one analyzeDocumentationCoverage call
  reader,              \* one readFilesWithProgress call
  pool,                \* a WorkerPool, its workers and the tasks submitted to it
  watcher              \* a DirectoryWatcher, its timers and its scans under way

storeVars == <<project, analyses, issues, now, currentResult, delta, everMarkedResolved, statusUpdates>>

\* A saveAnalysis call that is not running.
IdleSave ==
  [ pc |-> "idle", result |-> NoResult, timestamp |-> 0, analysisId |-> 0,
    analysisCount |-> 0, existingIssues |-> <<>>, next |-> 1 ]

NoScore == -1

NoIssue == [type |-> "", filePath |-> "", message |-> [spacing |-> 1, lexemes |-> <<>>]]

saveVars == <<saves>>
healthVars == <<healthInput, healthScore>>
fingerprintVars == <<issueA, issueB, fingerprints>>
runVars == <<run>>
laterVars == <<page, linkCheck, numerical, coverage, reader, pool, watcher>>

\* The page component before it is mounted.
NoPage ==
  [ indexedDB |-> TRUE, failing |-> FALSE, pc |-> "unmounted", state |-> "dashboard",
    analysisResults |-> NoResult, results |-> NoResult, error |-> FALSE,
    lastAnalysis |-> 0, issueStatusMap |-> [f \in Fingerprints |-> <<>>], computeDelta |-> "none", calls |-> 0 ]

\* No validateLinks call.
NoLinkCheck == [ pc |-> "idle", allFiles |-> {}, parsedMarkdown |-> <<>>, inconsistencies |-> <<>> ]

\* The numerical consistency detector not called.
NoNumerical == [ pc |-> "idle", files |-> <<>>, values |-> <<>>, inconsistencies |-> <<>> ]

\* analyzeDocumentationCoverage not called.
NoCoverage == [ pc |-> "idle", exports |-> <<>>, parsedMarkdown |-> <<>>, inconsistencies |-> <<>> ]

\* readFilesWithProgress not called.  Workers are the processFile() calls.
ReadWorkers == 1..(IF MaxConcurrency > MaxReadFiles THEN MaxConcurrency ELSE MaxReadFiles)
NoReader ==
  [ pc |-> "idle", concurrency |-> 0, files |-> 0, sizing |-> 0, sized |-> 0, currentIndex |-> 0,
    workers |-> [w \in ReadWorkers |-> [state |-> "none", index |-> 0]],
    results |-> {}, outcome |-> "pending" ]

\* No WorkerPool constructed.  Tasks are named 1..MaxTasks; inbox[i] holds
\* the tasks posted to worker i that it has not finished with.
Tasks == 1..MaxTasks
NoPool ==
  [ poolSize |-> 0, isInitialized |-> FALSE, workers |-> 0, workerAvailable |-> <<>>,
    taskQueue |-> <<>>, activeTasks |-> {}, inbox |-> <<>>,
    promise |-> [t \in Tasks |-> "none"],
    errorEvents |-> FALSE, terminated |-> FALSE, submittedEarly |-> FALSE ]

\* A DirectoryWatcher as its constructor leaves it.  A Map of file hashes is
\* a number, 0 the empty Map; timers holds the intervals of setInterval that
\* were not cleared; starting and scanning count the start() calls and the
\* timer callbacks that await scanDirectory().
Hashes == 0..MaxHashes
NoWatcher ==
  [ fileHashes |-> 0, intervalId |-> 0, isScanning |-> FALSE, enabled |-> TRUE,
    timers |-> {}, starting |-> 0, scanning |-> 0,
    stopped |-> FALSE, overlapped |-> FALSE, callback |-> "none" ]

\* No analysis running.
NoRun ==
  [ strategy |-> "none", files |-> <<>>, throws |-> {}, pc |-> "idle", index |-> 1,
    reading |-> {}, fileContents |-> {}, parsedMarkdown |-> {}, parsedCodeFiles |-> {},
    inconsistencies |-> {} ]

savesIdle == saves = [c \in Calls |-> IdleSave]
healthIdle == healthInput = NoResult /\ healthScore = NoScore
fingerprintIdle == issueA = NoIssue /\ issueB = NoIssue /\ fingerprints = <<>>
runIdle == run = NoRun
pageIdle == page = NoPage
linkCheckIdle == linkCheck = NoLinkCheck
numericalIdle == numerical = NoNumerical
coverageIdle == coverage = NoCoverage
readerIdle == reader = NoReader
poolIdle == pool = NoPool
watcherIdle == watcher = NoWatcher
laterIdle ==
  /\ pageIdle /\ linkCheckIdle /\ numericalIdle /\ coverageIdle /\ readerIdle
  /\ poolIdle /\ watcherIdle

otherVars == <<saveVars, healthVars, fingerprintVars, runVars, laterVars>>
otherVarsInit == savesIdle /\ healthIdle /\ fingerprintIdle /\ runIdle /\ laterIdle

vars == <<storeVars, otherVars>>

\* ------------------------------------------------------------ db.ts
\* Records of an index with equal index key come back in primary-key order.
RECURSIVE SortById(_)
SortById(S) ==
  IF S = {} THEN <<>>
  ELSE LET m == CHOOSE x \in S : \A y \in S : x.id <= y.id
       IN <<m>> \o SortById(S \ {m})

Reverse(s) == [i \in 1..Len(s) |-> s[Len(s) + 1 - i]]

getByIndex(store) == SortById(store)

getByIndexWithLimit(store, limit, direction) ==
  LET all == IF direction = "prev" THEN Reverse(SortById(store)) ELSE SortById(store)
  IN SubSeq(all, 1, IF Len(all) < limit THEN Len(all) ELSE limit)

\* ------------------------------------------------------ fingerprint.ts
severityPenalties(severity) ==
  CASE severity = "high" -> 10
    [] severity = "medium" -> 5
    [] severity = "low" -> 2
    [] OTHER -> 2

RECURSIVE SumPenalties(_)
SumPenalties(incs) ==
  IF incs = <<>> THEN 0
  ELSE severityPenalties(Head(incs).severity) + SumPenalties(Tail(incs))

Min(a, b) == IF a < b THEN a ELSE b
Max(a, b) == IF a > b THEN a ELSE b

\* Math.round of the rational num/den (den > 0): halves round towards +infinity.
MathRound(num, den) == (2 * num + den) \div (2 * den)

\* without the Math.max(0, ...) of the last line
calculateHealthScoreNoFloor(result) ==
  LET n == Len(result.inconsistencies)
      t == result.metadata.totalFiles
      cov == result.metadata.coveragePercentage
      afterSeverity == 100 - SumPenalties(result.inconsistencies)
      \* density = n / t * 10 ; penalty = min(20, (density - 5) * 2)
      densityNum == IF 10 * n > 5 * t THEN Min(20 * t, 20 * n - 10 * t) ELSE 0
      coverageAdj == IF cov = Undefined THEN 0
                     ELSE IF cov >= 80 THEN 5
                     ELSE IF cov < 50 THEN -10
                     ELSE 0
      scoreNum == (afterSeverity + coverageAdj) * t - densityNum
  IN IF t = 0 THEN 100
     ELSE Min(100, MathRound(scoreNum, t))

\* without the Math.min(20, ...) on the density penalty
calculateHealthScoreUncappedDensity(result) ==
  LET n == Len(result.inconsistencies)
      t == result.metadata.totalFiles
      cov == result.metadata.coveragePercentage
      afterSeverity == 100 - SumPenalties(result.inconsistencies)
      \* density = n / t * 10 ; penalty = min(20, (density - 5) * 2)
      densityNum == IF 10 * n > 5 * t THEN 20 * n - 10 * t ELSE 0
      coverageAdj == IF cov = Undefined THEN 0
                     ELSE IF cov >= 80 THEN 5
                     ELSE IF cov < 50 THEN -10
                     ELSE 0
      scoreNum == (afterSeverity + coverageAdj) * t - densityNum
  IN IF t = 0 THEN 100
     ELSE Max(0, Min(100, MathRound(scoreNum, t)))

\* coverage bonus for > 80 instead of >= 80
calculateHealthScoreBonusAbove80(result) ==
  LET n == Len(result.inconsistencies)
      t == result.metadata.totalFiles
      cov == result.metadata.coveragePercentage
      afterSeverity == 100 - SumPenalties(result.inconsistencies)
      \* density = n / t * 10 ; penalty = min(20, (density - 5) * 2)
      densityNum == IF 10 * n > 5 * t THEN Min(20 * t, 20 * n - 10 * t) ELSE 0
      coverageAdj == IF cov = Undefined THEN 0
                     ELSE IF cov > 80 THEN 5
                     ELSE IF cov < 50 THEN -10
                     ELSE 0
      scoreNum == (afterSeverity + coverageAdj) * t - densityNum
  IN IF t = 0 THEN 100
     ELSE Max(0, Min(100, MathRound(scoreNum, t)))

\* The score is kept as an exact fraction over totalFiles until Math.round.
calculateHealthScore(result) ==
  LET n == Len(result.inconsistencies)
      t == result.metadata.totalFiles
      cov == result.metadata.coveragePercentage
      afterSeverity == 100 - SumPenalties(result.inconsistencies)
      \* density = n / t * 10 ; penalty = min(20, (density - 5) * 2)
      densityNum == IF 10 * n > 5 * t THEN Min(20 * t, 20 * n - 10 * t) ELSE 0
      coverageAdj == IF cov = Undefined THEN 0
                     ELSE IF cov >= 80 THEN 5
                     ELSE IF cov < 50 THEN -10
                     ELSE 0
      scoreNum == (afterSeverity + coverageAdj) * t - densityNum
  IN IF t = 0 THEN 100
     ELSE Max(0, Min(100, MathRound(scoreNum, t)))

\* --------------------------------------------------------- storage.ts
getAnalysisHistory(limit) == getByIndexWithLimit(analyses, limit, "prev")

getIssuesForAnalysis(analysisId) ==
  getByIndex({ i \in issues : i.analysisId = analysisId })

\* Map semantics: keys in insertion order, value of the last set() per key.
RECURSIVE MapKeys(_)
MapKeys(s) ==
  IF s = <<>> THEN <<>>
  ELSE LET init == MapKeys(SubSeq(s, 1, Len(s) - 1))
           k == s[Len(s)].fingerprint
       IN IF \E j \in 1..Len(init) : init[j] = k THEN init ELSE Append(init, k)

KeySet(s) == { s[j].fingerprint : j \in 1..Len(s) }

MapGetLast(s, k) ==
  LET j == CHOOSE j \in 1..Len(s) :
             /\ s[j].fingerprint = k
             /\ \A l \in (j + 1)..Len(s) : s[l].fingerprint # k
  IN s[j]

MapGetFirst(s, k) ==
  LET j == CHOOSE j \in 1..Len(s) :
             /\ s[j].fingerprint = k
             /\ \A l \in 1..(j - 1) : s[l].fingerprint # k
  IN s[j]

\* firstSeenAt looked up in the issues of the latest stored run only
NewStoredIssuesFromLatestRun(result, analysisId, timestamp, ids) ==
  LET latest == { a \in analyses : \A b \in analyses : b.timestamp <= a.timestamp }
      existingIssues == getByIndex({ i \in issues : \E a \in latest : i.analysisId = a.id })
      firstSeenAt(fp) ==
        IF fp \in KeySet(existingIssues)
        THEN MapGetFirst(existingIssues, fp).firstSeenAt
        ELSE timestamp
  IN { [ id |-> ids[j],
         analysisId |-> analysisId,
         fingerprint |-> result.inconsistencies[j].fingerprint,
         severity |-> result.inconsistencies[j].severity,
         firstSeenAt |-> firstSeenAt(result.inconsistencies[j].fingerprint),
         status |-> "open",
         statusSetAt |-> 0 ] : j \in 1..Len(result.inconsistencies) }

\* The issue records saveAnalysis puts for one result: ids[j] is the UUID
\* generated for inconsistency j.  statusSetAt is a history field, not part of
\* StoredIssue: the number of runs saved when the user last set the status
\* (0 while the status is the one saveAnalysis wrote).
NewStoredIssues(result, analysisId, timestamp, ids) ==
  LET existingIssues == getByIndex(issues)
      firstSeenAt(fp) ==
        IF fp \in KeySet(existingIssues)
        THEN MapGetFirst(existingIssues, fp).firstSeenAt
        ELSE timestamp
  IN { [ id |-> ids[j],
         analysisId |-> analysisId,
         fingerprint |-> result.inconsistencies[j].fingerprint,
         severity |-> result.inconsistencies[j].severity,
         firstSeenAt |-> firstSeenAt(result.inconsistencies[j].fingerprint),
         status |-> "open",
         statusSetAt |-> 0 ] : j \in 1..Len(result.inconsistencies) }

\* generateUUID: any identifier not yet used as a key of the store.
FreshAnalysisIds == AnalysisIds \ { a.id : a \in analyses }
FreshIssueIds == IssueIds \ { i.id : i \in issues }

InjectiveSeqs(S, n) ==
  { f \in [1..n -> S] : \A a, b \in 1..n : a # b => f[a] # f[b] }

saveAnalysis(result) ==
  /\ project < MaxRuns
  /\ Cardinality(issues) + Len(result.inconsistencies) <= MaxStored
  /\ \E analysisId \in FreshAnalysisIds :
     \E ids \in InjectiveSeqs(FreshIssueIds, Len(result.inconsistencies)) :
       LET timestamp == now
           analysisCount == project + 1
           analysis == [ id |-> analysisId,
                         timestamp |-> timestamp,
                         issueCount |-> Len(result.inconsistencies),
                         healthScore |-> calculateHealthScore(result),
                         runNumber |-> analysisCount ]
       IN /\ project' = analysisCount
          /\ analyses' = analyses \cup {analysis}
          /\ issues' = issues \cup NewStoredIssues(result, analysisId, timestamp, ids)
  /\ now' = now + 1
  /\ currentResult' = result
  /\ delta' = NoDelta
  /\ UNCHANGED <<everMarkedResolved, statusUpdates>>

updateIssueStatus(issueId, status) ==
  /\ statusUpdates < MaxStatusUpdates
  /\ statusUpdates' = statusUpdates + 1
  /\ \E issue \in issues :
       /\ issue.id = issueId
       /\ issues' = (issues \ {issue})
                      \cup {[issue EXCEPT !.status = status, !.statusSetAt = project]}
       /\ everMarkedResolved' =
            IF status = "resolved" THEN everMarkedResolved \cup {issue.fingerprint}
            ELSE everMarkedResolved
  /\ delta' = NoDelta
  /\ UNCHANGED <<project, analyses, now, currentResult>>

\* fingerprintToIssue.get(fingerprint) in getIssueStatusMap: scanning the
\* project's stored issues in key order, an issue replaces the kept one only
\* when its firstSeenAt is strictly later.
RECURSIVE fingerprintToIssue(_, _)
fingerprintToIssue(storedIssues, fingerprint) ==
  LET n == Len(storedIssues)
      issue == storedIssues[n]
      existing == fingerprintToIssue(SubSeq(storedIssues, 1, n - 1), fingerprint)
  IN IF n = 0 THEN <<>>
     ELSE IF issue.fingerprint # fingerprint THEN existing
     ELSE IF existing = <<>> \/ issue.firstSeenAt > existing[1].firstSeenAt THEN <<issue>>
     ELSE existing

\* The entry of the status map for one fingerprint of the given
\* inconsistencies: <<>> when there is none, else <<[id, status]>>.
getIssueStatusMap(inconsistencies, fingerprint) ==
  LET found == fingerprintToIssue(getByIndex(issues), fingerprint)
  IN IF fingerprint \notin KeySet(inconsistencies) \/ found = <<>> THEN <<>>
     ELSE << [id |-> found[1].id, status |-> found[1].status] >>

\* page.tsx: a status button of the issues table, which passes the stored id
\* that the status map holds for the issue's fingerprint.
handleStatusChange(fingerprint, status) ==
  LET entry == getIssueStatusMap(currentResult.inconsistencies, fingerprint)
  IN /\ entry # <<>>
     /\ updateIssueStatus(entry[1].id, status)

\* ----------------------------------------------------------- delta.ts
Null == -1

SEVERITY_PENALTIES(severity) ==
  CASE severity = "high" -> 10
    [] severity = "medium" -> 5
    [] severity = "low" -> 2
    [] OTHER -> 2

getEverResolvedFingerprints ==
  LET allIssues == getByIndex(issues)
  IN { allIssues[j].fingerprint : j \in { l \in 1..Len(allIssues) : allIssues[l].status = "resolved" } }

\* statusMap.get(fingerprint) || 'open' over the map built by getCurrentStatusMap
getCurrentStatus(fingerprint) ==
  LET allIssues == getByIndex(issues)
  IN IF fingerprint \in KeySet(allIssues)
     THEN MapGetLast(allIssues, fingerprint).status
     ELSE "open"

\* recentAnalyses[1] of the two most recent analyses, when there is one
previousAnalysisIndex == 2

\* off by one: takes recentAnalyses[0], the run that was just saved
getPreviousIssuesFromIndex0 ==
  LET recentAnalyses == getAnalysisHistory(2)
  IN IF Len(recentAnalyses) > 0
     THEN getIssuesForAnalysis(recentAnalyses[1].id)
     ELSE <<>>

getPreviousIssues ==
  LET recentAnalyses == getAnalysisHistory(2)
  IN IF Len(recentAnalyses) > 1
     THEN getIssuesForAnalysis(recentAnalyses[previousAnalysisIndex].id)
     ELSE <<>>

\* rules 1 and 2 swapped: the ever-resolved test runs before the ignored test
classifyReintroducedFirst(currentStatus, inPrevious, wasEverResolved) ==
  IF ~inPrevious /\ wasEverResolved THEN "reintroduced"
  ELSE IF currentStatus = "ignored" THEN "ignored"
  ELSE IF ~inPrevious THEN "new"
  ELSE "persisting"

classify(currentStatus, inPrevious, wasEverResolved) ==
  IF currentStatus = "ignored" THEN "ignored"
  ELSE IF ~inPrevious /\ wasEverResolved THEN "reintroduced"
  ELSE IF ~inPrevious THEN "new"
  ELSE "persisting"

\* first loop: one IssueDelta per key of the currentFingerprints map
currentDeltas(result, previousIssues) ==
  LET currentKeys == MapKeys(result.inconsistencies)
  IN [ j \in 1..Len(currentKeys) |->
       LET fingerprint == currentKeys[j]
           issue == MapGetLast(result.inconsistencies, fingerprint)
           inPrevious == fingerprint \in KeySet(previousIssues)
       IN [ fingerprint |-> fingerprint,
            classification |-> classify(getCurrentStatus(fingerprint), inPrevious,
                                        fingerprint \in getEverResolvedFingerprints),
            severity |-> issue.severity,
            hasIssue |-> TRUE,
            hasPreviousIssue |-> inPrevious ] ]

\* second loop without the currentFingerprints.has test
resolvedDeltasUnfiltered(result, previousIssues) ==
  LET keys == MapKeys(previousIssues)
  IN [ j \in 1..Len(keys) |->
       [ fingerprint |-> keys[j],
         classification |-> "resolved",
         severity |-> MapGetLast(previousIssues, keys[j]).severity,
         hasIssue |-> FALSE,
         hasPreviousIssue |-> TRUE ] ]

\* second loop: previous issues whose fingerprint is not in the current run
resolvedDeltas(result, previousIssues) ==
  LET gone(fingerprint) == fingerprint \notin KeySet(result.inconsistencies)
      goneKeys == SelectSeq(MapKeys(previousIssues), gone)
  IN [ j \in 1..Len(goneKeys) |->
       [ fingerprint |-> goneKeys[j],
         classification |-> "resolved",
         severity |-> MapGetLast(previousIssues, goneKeys[j]).severity,
         hasIssue |-> FALSE,
         hasPreviousIssue |-> TRUE ] ]

CountWhere(deltas, classification) ==
  Cardinality({ j \in 1..Len(deltas) : deltas[j].classification = classification })

CountWhereSeverity(deltas, classification, severity) ==
  Cardinality({ j \in 1..Len(deltas) :
                  /\ deltas[j].classification = classification
                  /\ deltas[j].severity = severity })

RECURSIVE fromNewIssues(_)
fromNewIssues(deltas) ==
  IF deltas = <<>> THEN 0
  ELSE (IF Head(deltas).classification \in {"new", "reintroduced"}
        THEN 0 - SEVERITY_PENALTIES(Head(deltas).severity) ELSE 0)
       + fromNewIssues(Tail(deltas))

RECURSIVE fromResolvedIssues(_)
fromResolvedIssues(deltas) ==
  IF deltas = <<>> THEN 0
  ELSE (IF Head(deltas).classification = "resolved"
        THEN SEVERITY_PENALTIES(Head(deltas).severity) ELSE 0)
       + fromResolvedIssues(Tail(deltas))

\* sign slip on the resolved term
fromSeverityMixSignSlip(healthDelta, fromNew, fromResolved) ==
  healthDelta - fromNew + fromResolved

fromSeverityMix(healthDelta, fromNew, fromResolved) ==
  healthDelta - fromNew - fromResolved

computeDelta(result) ==
  LET recentAnalyses == getAnalysisHistory(2)
      isFirstRun == ~(Len(recentAnalyses) > 1)
      previousIssues == getPreviousIssues
      deltas == currentDeltas(result, previousIssues) \o resolvedDeltas(result, previousIssues)
      currentHealthScore == calculateHealthScore(result)
      previousHealthScore ==
        IF isFirstRun THEN Null ELSE recentAnalyses[previousAnalysisIndex].healthScore
      healthDelta ==
        IF previousHealthScore # Null THEN currentHealthScore - previousHealthScore ELSE 0
      fromNew == fromNewIssues(deltas)
      fromResolved == fromResolvedIssues(deltas)
  IN [ computed |-> TRUE,
       newCount |-> CountWhere(deltas, "new"),
       persistingCount |-> CountWhere(deltas, "persisting"),
       resolvedCount |-> CountWhere(deltas, "resolved"),
       reintroducedCount |-> CountWhere(deltas, "reintroduced"),
       ignoredCount |-> CountWhere(deltas, "ignored"),
       newHigh |-> CountWhereSeverity(deltas, "new", "high"),
       previousHealthScore |-> previousHealthScore,
       currentHealthScore |-> currentHealthScore,
       healthDelta |-> healthDelta,
       healthAttribution |->
         [ fromNewIssues |-> fromNew,
           fromResolvedIssues |-> fromResolved,
           fromSeverityMix |-> fromSeverityMix(healthDelta, fromNew, fromResolved) ],
       issues |-> deltas,
       hasRegressions |-> (CountWhereSeverity(deltas, "new", "high") > 0
                           \/ CountWhere(deltas, "reintroduced") > 0),
       isFirstRun |-> isFirstRun ]

\* The page computes the delta for the result it has just saved.
ComputeDelta ==
  /\ project > 0
  /\ delta = NoDelta
  /\ delta' = computeDelta(currentResult)
  /\ UNCHANGED <<project, analyses, issues, now, currentResult, everMarkedResolved, statusUpdates>>
  /\ UNCHANGED otherVars

\* ------------------------------------------------------- specification
storeInit ==
  /\ project = 0
  /\ analyses = {}
  /\ issues = {}
  /\ now = 1
  /\ currentResult = NoResult
  /\ delta = NoDelta
  /\ everMarkedResolved = {}
  /\ statusUpdates = 0

Init == storeInit /\ otherVarsInit

SaveAnalysis ==
  /\ \E result \in AnalysisResults : saveAnalysis(result)
  /\ UNCHANGED otherVars

HandleStatusChange ==
  /\ \E fingerprint \in Fingerprints, status \in Statuses : handleStatusChange(fingerprint, status)
  /\ UNCHANGED otherVars

Next == SaveAnalysis \/ HandleStatusChange \/ ComputeDelta

Spec == Init /\ [][Next]_vars

TypeOK ==
  /\ project \in 0..MaxRuns
  /\ Cardinality(analyses) = project
  /\ \A i \in issues : \E a \in analyses : a.id = i.analysisId

\* ------------------------------------- saveAnalysis, one step per await
\* Every get and put of db.ts runs in a transaction of its own, so between
\* two awaits of one saveAnalysis call any step of another call can run.

\* const timestamp = ...; const analysisId = generateUUID();
saveAnalysisBegin(c, result) ==
  /\ saves[c].pc = "idle"
  /\ Cardinality(analyses) + Cardinality({ d \in Calls : saves[d].pc \notin {"idle", "putIssues", "done"} })
       < MaxRuns
  /\ Cardinality(issues)
       + Cardinality({ <<d, j>> \in Calls \X (1..MaxIssues) :
                         /\ saves[d].pc \notin {"idle", "done"}
                         /\ j \in saves[d].next..Len(saves[d].result.inconsistencies) })
       + Len(result.inconsistencies) <= MaxStored
  /\ \E analysisId \in FreshAnalysisIds \ { saves[d].analysisId : d \in Calls } :
       saves' = [saves EXCEPT ![c] =
                   [IdleSave EXCEPT !.pc = "getProject", !.result = result,
                                    !.timestamp = now, !.analysisId = analysisId]]
  /\ now' = now + 1
  /\ UNCHANGED <<project, analyses, issues, currentResult, delta, everMarkedResolved, statusUpdates>>

\* let project = await get(STORES.PROJECTS, projectId); analysisCount += 1 or = 1
saveAnalysisGetProject(c) ==
  /\ saves[c].pc = "getProject"
  /\ saves' = [saves EXCEPT ![c].pc = "putProject", ![c].analysisCount = project + 1]
  /\ UNCHANGED storeVars

\* await put(STORES.PROJECTS, project)
saveAnalysisPutProject(c) ==
  /\ saves[c].pc = "putProject"
  /\ project' = saves[c].analysisCount
  /\ saves' = [saves EXCEPT ![c].pc = "putAnalysis"]
  /\ UNCHANGED <<analyses, issues, now, currentResult, delta, everMarkedResolved, statusUpdates>>

\* await put(STORES.ANALYSES, analysis)
saveAnalysisPutAnalysis(c) ==
  /\ saves[c].pc = "putAnalysis"
  /\ analyses' = analyses \cup
       { [ id |-> saves[c].analysisId,
           timestamp |-> saves[c].timestamp,
           issueCount |-> Len(saves[c].result.inconsistencies),
           healthScore |-> calculateHealthScore(saves[c].result),
           runNumber |-> saves[c].analysisCount ] }
  /\ saves' = [saves EXCEPT ![c].pc = "getExistingIssues"]
  /\ UNCHANGED <<project, issues, now, currentResult, delta, everMarkedResolved, statusUpdates>>

\* const existingIssues = await getByIndex(STORES.ISSUES, 'projectId', projectId)
saveAnalysisGetExistingIssues(c) ==
  /\ saves[c].pc = "getExistingIssues"
  /\ saves' = [saves EXCEPT ![c].pc = "putIssues", ![c].existingIssues = getByIndex(issues)]
  /\ UNCHANGED storeVars

\* one round of the loop: await put(STORES.ISSUES, storedIssue); the call
\* returns after the last inconsistency.
saveAnalysisPutIssue(c) ==
  /\ saves[c].pc = "putIssues"
  /\ LET call == saves[c]
         incs == call.result.inconsistencies
     IN IF call.next > Len(incs)
        THEN /\ saves' = [saves EXCEPT ![c].pc = "done"]
             /\ currentResult' = call.result
             /\ delta' = NoDelta
             /\ UNCHANGED issues
        ELSE LET fingerprint == incs[call.next].fingerprint
                 firstSeenAt ==
                   IF fingerprint \in KeySet(call.existingIssues)
                   THEN MapGetFirst(call.existingIssues, fingerprint).firstSeenAt
                   ELSE call.timestamp
             IN /\ \E id \in FreshIssueIds :
                     issues' = issues \cup
                       { [ id |-> id,
                           analysisId |-> call.analysisId,
                           fingerprint |-> fingerprint,
                           severity |-> incs[call.next].severity,
                           firstSeenAt |-> firstSeenAt,
                           status |-> "open",
                           statusSetAt |-> 0 ] }
                /\ saves' = [saves EXCEPT ![c].next = call.next + 1]
                /\ UNCHANGED <<currentResult, delta>>
  /\ UNCHANGED <<project, analyses, now, everMarkedResolved, statusUpdates>>

notSaves == <<healthVars, fingerprintVars, runVars, laterVars>>

SaveAnalysisBegin ==
  /\ \E c \in Calls, result \in AnalysisResults : saveAnalysisBegin(c, result)
  /\ UNCHANGED notSaves
SaveAnalysisGetProject ==
  /\ \E c \in Calls : saveAnalysisGetProject(c)
  /\ UNCHANGED notSaves
SaveAnalysisPutProject ==
  /\ \E c \in Calls : saveAnalysisPutProject(c)
  /\ UNCHANGED notSaves
SaveAnalysisPutAnalysis ==
  /\ \E c \in Calls : saveAnalysisPutAnalysis(c)
  /\ UNCHANGED notSaves
SaveAnalysisGetExistingIssues ==
  /\ \E c \in Calls : saveAnalysisGetExistingIssues(c)
  /\ UNCHANGED notSaves
SaveAnalysisPutIssue ==
  /\ \E c \in Calls : saveAnalysisPutIssue(c)
  /\ UNCHANGED notSaves

NextInterleaved ==
  \/ SaveAnalysisBegin
  \/ SaveAnalysisGetProject
  \/ SaveAnalysisPutProject
  \/ SaveAnalysisPutAnalysis
  \/ SaveAnalysisGetExistingIssues
  \/ SaveAnalysisPutIssue

SpecInterleaved == Init /\ [][NextInterleaved]_vars

\* ------------------------------------------- calculateHealthScore alone
\* Results handed to calculateHealthScore.  The function reads the severity
\* of each inconsistency, their number, totalFiles and coveragePercentage;
\* the penalties are whole numbers, so the order of the issues has no effect
\* and the issues are listed by severity.
SeverityList(high, medium, low) ==
  [ j \in 1..(high + medium + low) |->
      [ fingerprint |-> 1,
        severity |-> IF j <= high THEN "high"
                     ELSE IF j <= high + medium THEN "medium" ELSE "low" ] ]

\* coveragePercentage is Math.round of a percentage, or absent
Coverages == {Undefined, 0, 49, 50, 79, 80, 100}

HealthResults ==
  { [ inconsistencies |-> SeverityList(h, m, l),
      metadata |-> [totalFiles |-> t, coveragePercentage |-> c] ] :
      h \in 0..MaxHigh, m \in 0..MaxMedium, l \in 0..MaxLow, t \in 0..MaxFiles, c \in Coverages }

InitHealth ==
  /\ storeInit
  /\ savesIdle
  /\ fingerprintIdle
  /\ runIdle
  /\ laterIdle
  /\ healthInput \in HealthResults
  /\ healthScore = NoScore

CalculateHealthScore ==
  /\ healthScore = NoScore
  /\ healthScore' = calculateHealthScore(healthInput)
  /\ UNCHANGED <<storeVars, saveVars, healthInput, fingerprintVars, runVars, laterVars>>

NextHealth == CalculateHealthScore

SpecHealth == InitHealth /\ [][NextHealth]_vars

\* --------------------------------------- fingerprint.ts: fingerprints
\* A message is a list of lexemes separated by runs of `spacing` blanks, with
\* the same run of blanks before the first and after the last one.  A lexeme
\* is a word ("see"), a line reference ("line 42", "L42"), a column reference
\* ("col 5", ":10:25"), a quote character, a piece of text that holds no
\* blank and no quote (a path or a keyword), or a count ("5 files").  `upper`
\* tells whether its letters are written in upper case ("See", "Line 42",
\* "L42" as opposed to "see", "line 42", "l42"); value 0 stands for the
\* placeholder N.
Numbers == 1..MaxNumber
Words == {"see", "missing"}
Paths == {"docs/a.md", "docs/b.md"}
Keywords == {"timeout", "port"}
IssueTypes == {"broken-link", "numerical-inconsistency"}
FilePaths == {"README.md", "docs/api.md"}

Lexemes ==
  [kind : {"word"}, form : Words, value : {0}, upper : BOOLEAN]
    \cup [kind : {"line"}, form : {"line", "L"}, value : Numbers, upper : BOOLEAN]
    \cup [kind : {"column"}, form : {"col", "colon"}, value : Numbers, upper : {FALSE}]
    \cup [kind : {"quote"}, form : {"'", "\""}, value : {0}, upper : {FALSE}]
    \cup [kind : {"text"}, form : Paths \cup Keywords, value : {0}, upper : {FALSE}]
    \cup [kind : {"count"}, form : {"files", "links"}, value : Numbers, upper : {FALSE}]

\* .replace(/\bline\s*\d+/gi, 'line N').replace(/\bL\d+/g, 'LN'): the second
\* pattern has no i flag, so "l42" is left as it is.
replaceLineNumbers(l) ==
  IF l.kind = "line" /\ l.form = "line" THEN [l EXCEPT !.value = 0, !.upper = FALSE]
  ELSE IF l.kind = "line" /\ l.form = "L" /\ l.upper THEN [l EXCEPT !.value = 0]
  ELSE l

\* .replace(/:\d+:\d+/g, ':N:N').replace(/\bcol(umn)?\s*\d+/gi, 'col N')
replaceColumnNumbers(l) ==
  IF l.kind = "column" THEN [l EXCEPT !.value = 0] ELSE l

PATH == [kind |-> "text", form |-> "PATH", value |-> 0, upper |-> TRUE]

\* .replace(/(['"`])([^'"`]+)(['"`])/g, '$1PATH$3'): scanning from the left,
\* a quote character and the next quote character of any kind, with at least
\* one other character between them (here at least a blank), are kept and
\* what they enclose becomes PATH; the scan goes on after the closing one.
RECURSIVE replaceQuoted(_)
replaceQuoted(lexemes) ==
  IF lexemes = <<>> THEN <<>>
  ELSE LET rest == Tail(lexemes)
           closing == { k \in 1..Len(rest) : rest[k].kind = "quote" }
       IN IF Head(lexemes).kind = "quote" /\ closing # {}
          THEN LET k == CHOOSE k \in closing : \A m \in closing : k <= m
               IN <<Head(lexemes), PATH, rest[k]>>
                    \o replaceQuoted(SubSeq(rest, k + 1, Len(rest)))
          ELSE <<Head(lexemes)>> \o replaceQuoted(rest)

\* .replace(/\b\d+\s+(files?|links?|issues?)/gi, 'N $1')
replaceCounts(l) ==
  IF l.kind = "count" THEN [l EXCEPT !.value = 0] ELSE l

toLowerCase(l) == [l EXCEPT !.upper = FALSE]

\* .replace(/\s+/g, ' ').trim() leaves single blanks between the lexemes.
normalizeMessage(message) ==
  LET refs == [j \in 1..Len(message.lexemes) |->
                 replaceColumnNumbers(replaceLineNumbers(message.lexemes[j]))]
      quoted == replaceQuoted(refs)
  IN [ spacing |-> 1,
       lexemes |-> [j \in 1..Len(quoted) |-> toLowerCase(replaceCounts(quoted[j]))] ]

\* sha256 and the 16 characters kept of it: a hash, taken as free of
\* collisions, so that two sources have one digest only when they are equal.
sha256(fingerprintSource) == fingerprintSource

\* [type, filePath, normalizedMessage].join('::')
generateIssueFingerprint(issue) ==
  sha256(<<issue.type, issue.filePath, normalizeMessage(issue.message)>>)

\* Messages as the detectors write them: lower-case words, "line 1", "L1",
\* single blanks.
BaseLexemes ==
  { l \in Lexemes :
      /\ l.value \in {0, 1}
      /\ l.upper = (l.kind = "line" /\ l.form = "L")
      /\ l.form \in {"see", "line", "L", "col", "colon", "'", "docs/a.md", "timeout", "files"} }

BaseIssues ==
  [ type : {"broken-link"}, filePath : {"README.md"},
    message : [spacing : {1}, lexemes : SeqsUpTo(BaseLexemes, MaxTokens)] ]

\* The issues that have, lexeme by lexeme, the kinds of lexemes of a given
\* one: any other number, path, keyword, word, unit, letter case or quote in
\* each place, any spacing, and the same or another type and file.
Rewrites(issue) ==
  LET n == Len(issue.message.lexemes)
  IN { other \in [ type : IssueTypes, filePath : FilePaths,
                   message : [ spacing : 1..2,
                               lexemes : [1..n -> Lexemes] ] ] :
         /\ \A j \in 1..n : other.message.lexemes[j].kind = issue.message.lexemes[j].kind
         /\ other.type = issue.type \/ other.filePath = issue.filePath }

InitFingerprint ==
  /\ storeInit
  /\ savesIdle
  /\ healthIdle
  /\ runIdle
  /\ laterIdle
  /\ issueA \in BaseIssues
  /\ issueB \in Rewrites(issueA)
  /\ fingerprints = <<>>

GenerateIssueFingerprint ==
  /\ fingerprints = <<>>
  /\ fingerprints' = <<generateIssueFingerprint(issueA), generateIssueFingerprint(issueB)>>
  /\ UNCHANGED <<storeVars, saveVars, healthVars, issueA, issueB, runVars, laterVars>>

NextFingerprint == GenerateIssueFingerprint

SpecFingerprint == InitFingerprint /\ [][NextFingerprint]_vars

\* ------------------------------------------------ analyzer.ts: one run
\* A project file: markdown or source, and where reading it fails, if it
\* does: in getFile() (removed, permission lost) or in text() (changed or
\* unreadable after the File was obtained).
BrowserFiles == [kind : {"markdown", "code"}, readError : {"none", "getFile", "text"}]

\* The detectors in the order both analyzers call them.
detectors ==
  << "validateLinks", "detectMalformedLinks", "detectBrokenImages", "detectTodoMarkers",
     "detectOrphanedFiles", "analyzeDocumentationCoverage", "detectNumericalInconsistencies" >>

Detectors == { detectors[j] : j \in 1..Len(detectors) }

\* What a detector reports: one issue per parsed file it looks at, the parsed
\* source files for the coverage analysis and the parsed markdown files for
\* every other detector.
DetectorIssues(detector, parsedMarkdown, parsedCodeFiles) ==
  { <<detector, file>> :
      file \in IF detector = "analyzeDocumentationCoverage" THEN parsedCodeFiles
               ELSE parsedMarkdown }

\* files.filter(f => f.name.endsWith('.md')) and the filter for source files,
\* as lists of positions in files.
RECURSIVE FilterKind(_, _, _)
FilterKind(files, kind, from) ==
  IF from > Len(files) THEN <<>>
  ELSE (IF files[from].kind = kind THEN <<from>> ELSE <<>>) \o FilterKind(files, kind, from + 1)

markdownFiles(files) == FilterKind(files, "markdown", 1)
codeFiles(files) == FilterKind(files, "code", 1)

\* [...markdownFiles, ...codeFiles]
filesToRead(files) == markdownFiles(files) \o codeFiles(files)

\* readFilesWithProgress is called with its default concurrency.
concurrency == 4

\* analyzeProject, step 1: for (const file of markdownFiles) { await
\* readFileContent(file.handle); ... }.  readFileContent rethrows a failed
\* read and nothing catches it, so the call rejects.
analyzeProjectParseMarkdown ==
  /\ run.pc = "parseMarkdown"
  /\ LET md == markdownFiles(run.files)
     IN run' =
          IF run.index > Len(md) THEN [run EXCEPT !.pc = "parseCodeFiles", !.index = 1]
          ELSE IF run.files[md[run.index]].readError # "none" THEN [run EXCEPT !.pc = "rejected"]
          ELSE [run EXCEPT !.parsedMarkdown = @ \cup {md[run.index]}, !.index = @ + 1]

\* parseCodeFiles: try { await readFileContent(...) } catch { skip the file }
parseCodeFiles ==
  /\ run.pc = "parseCodeFiles"
  /\ LET code == codeFiles(run.files)
     IN run' =
          IF run.index > Len(code) THEN [run EXCEPT !.pc = "detect", !.index = 1]
          ELSE IF run.files[code[run.index]].readError # "none" THEN [run EXCEPT !.index = @ + 1]
          ELSE [run EXCEPT !.parsedCodeFiles = @ \cup {code[run.index]}, !.index = @ + 1]

\* readFilesWithProgress, first loop: totalBytes += await getFileSize(handle)
getFileSize ==
  /\ run.pc = "getFileSize"
  /\ LET toRead == filesToRead(run.files)
         started == IF Len(toRead) < concurrency THEN Len(toRead) ELSE concurrency
     IN run' =
          IF run.index > Len(toRead)
          THEN [run EXCEPT !.pc = "processFile", !.reading = 1..started, !.index = started + 1]
          ELSE IF run.files[toRead[run.index]].readError = "getFile"
          THEN [run EXCEPT !.pc = "rejected"]
          ELSE [run EXCEPT !.index = @ + 1]

\* readFilesWithProgress, the workers: each holds one position of the list,
\* and on finishing its read takes the next position (currentIndex++).  A
\* failed readFileWithSizeCheck rejects processFile and with it Promise.all.
processFile ==
  /\ run.pc = "processFile"
  /\ LET toRead == filesToRead(run.files)
     IN IF run.reading = {}
        THEN run' = [run EXCEPT !.pc = "parseContents"]
        ELSE \E position \in run.reading :
               run' =
                 IF run.files[toRead[position]].readError # "none"
                 THEN [run EXCEPT !.pc = "rejected"]
                 ELSE [run EXCEPT
                         !.fileContents = @ \cup {toRead[position]},
                         !.reading = (@ \ {position})
                                       \cup (IF run.index <= Len(toRead) THEN {run.index} ELSE {}),
                         !.index = IF run.index <= Len(toRead) THEN @ + 1 ELSE @]

\* analyzeProjectWithWorkers, step 2: parse the contents that were read
parseContents ==
  /\ run.pc = "parseContents"
  /\ run' = [run EXCEPT
               !.parsedMarkdown = { f \in run.fileContents : run.files[f].kind = "markdown" },
               !.parsedCodeFiles = { f \in run.fileContents : run.files[f].kind = "code" },
               !.pc = "detect",
               !.index = 1]

\* steps 3 to 5 of both analyzers: inconsistencies.push(...detector(...)), one
\* detector after the other with no try around any of them; after the last
\* one the result is returned.
runDetector ==
  /\ run.pc = "detect"
  /\ run' =
       IF run.index > Len(detectors) THEN [run EXCEPT !.pc = "resolved"]
       ELSE IF detectors[run.index] \in run.throws THEN [run EXCEPT !.pc = "rejected"]
       ELSE [run EXCEPT
               !.inconsistencies =
                  @ \cup DetectorIssues(detectors[run.index], run.parsedMarkdown, run.parsedCodeFiles),
               !.index = @ + 1]

notRun == <<storeVars, saveVars, healthVars, fingerprintVars, laterVars>>

InitRun ==
  /\ storeInit
  /\ savesIdle
  /\ healthIdle
  /\ fingerprintIdle
  /\ laterIdle
  /\ \E files \in SeqsUpTo(BrowserFiles, MaxRunFiles) :
     \E throws \in { t \in SUBSET Detectors : Cardinality(t) <= MaxThrowing } :
     \E strategy \in {"analyzeProject", "analyzeProjectWithWorkers"} :
       run = [NoRun EXCEPT
                !.strategy = strategy, !.files = files, !.throws = throws,
                !.pc = IF strategy = "analyzeProject" THEN "parseMarkdown" ELSE "getFileSize"]

AnalyzeProjectParseMarkdown == analyzeProjectParseMarkdown /\ UNCHANGED notRun
ParseCodeFiles == parseCodeFiles /\ UNCHANGED notRun
GetFileSize == getFileSize /\ UNCHANGED notRun
ProcessFile == processFile /\ UNCHANGED notRun
ParseContents == parseContents /\ UNCHANGED notRun
RunDetector == runDetector /\ UNCHANGED notRun

NextRun ==
  \/ AnalyzeProjectParseMarkdown
  \/ ParseCodeFiles
  \/ GetFileSize
  \/ ProcessFile
  \/ ParseContents
  \/ RunDetector

SpecRun == InitRun /\ [][NextRun]_vars

\* ------------------------------------------------- page.tsx: one session
\* The page holds state, results, error, lastAnalysis and issueStatusMap.
\* page.indexedDB is what isIndexedDBAvailable() returns in this browser;
\* page.failing says that the store operations of the handler in flight
\* reject (the database cannot be opened, a request errors).

\* The mount effect: getAllProjects() finds no project, or fails, and the
\* page shows the upload zone; with a project stored it stays on the dashboard.
mountPage ==
  /\ page.pc = "unmounted"
  /\ \E available \in BOOLEAN :
       page' = [page EXCEPT !.indexedDB = available, !.pc = "idle", !.state = "upload"]
  /\ UNCHANGED storeVars

\* handleNewAnalysis: setState('upload')
handleNewAnalysis ==
  /\ page.pc = "idle"
  /\ page.state = "dashboard"
  /\ page' = [page EXCEPT !.state = "upload"]
  /\ UNCHANGED storeVars

\* handleFolderSelected up to its first await; the store works or fails for
\* the length of the call.
handleFolderSelected ==
  /\ page.pc = "idle"
  /\ page.state = "upload"
  /\ page.calls < MaxPageCalls
  /\ \E failing \in (IF page.indexedDB THEN BOOLEAN ELSE {FALSE}) :
       page' = [page EXCEPT !.failing = failing, !.pc = "checkPreviousAnalysis",
                            !.calls = @ + 1, !.computeDelta = "none"]
  /\ UNCHANGED storeVars

\* checkPreviousAnalysis: try { previous = await getLatestAnalysis(name); if
\* (previous) setLastAnalysis(previous) } catch { warn }, then
\* setState('analyzing'); setError('').
checkPreviousAnalysis ==
  /\ page.pc = "checkPreviousAnalysis"
  /\ LET history == IF page.indexedDB THEN getAnalysisHistory(1) ELSE <<>>
     IN page' = [page EXCEPT
                   !.lastAnalysis = IF ~page.failing /\ Len(history) > 0 THEN history[1].id ELSE @,
                   !.state = "analyzing",
                   !.error = FALSE,
                   !.pc = "analyzeProject"]
  /\ UNCHANGED storeVars

\* const files = await readDirectory(dirHandle); const analysisResults =
\* await analyzeProject(files, ...): either yields a result or rejects, and a
\* rejection reaches the outer catch: setError(...); setState('upload').
pageAnalyzeProject ==
  /\ page.pc = "analyzeProject"
  /\ \/ \E result \in AnalysisResults :
          page' = [page EXCEPT !.analysisResults = result, !.pc = "saveAnalysis"]
     \/ page' = [page EXCEPT !.error = TRUE, !.state = "upload", !.pc = "idle"]
  /\ UNCHANGED storeVars

\* try { await saveAnalysis(name, analysisResults) } catch { warn }.
\* saveAnalysis returns '' at once when IndexedDB is not available.
pageSaveAnalysis ==
  /\ page.pc = "saveAnalysis"
  /\ page' = [page EXCEPT !.pc = "getIssueStatusMap"]
  /\ IF page.indexedDB /\ ~page.failing
     THEN saveAnalysis(page.analysisResults)
     ELSE UNCHANGED storeVars

\* try { setIssueStatusMap(await getIssueStatusMap(name, inconsistencies)) }
\* catch { warn }.  Without IndexedDB the map returned is empty; when the
\* read fails nothing is set.
pageGetIssueStatusMap ==
  /\ page.pc = "getIssueStatusMap"
  /\ page' = [page EXCEPT
                !.issueStatusMap =
                   IF ~page.indexedDB THEN [f \in Fingerprints |-> <<>>]
                   ELSE IF page.failing /\ Len(page.analysisResults.inconsistencies) > 0 THEN @
                   ELSE [f \in Fingerprints |->
                           getIssueStatusMap(page.analysisResults.inconsistencies, f)],
                !.pc = "showResults"]
  /\ UNCHANGED storeVars

\* setResults(analysisResults); setState('results')
showResults ==
  /\ page.pc = "showResults"
  /\ page' = [page EXCEPT !.results = page.analysisResults, !.state = "results", !.pc = "results"]
  /\ UNCHANGED storeVars

\* computeDelta(name, results) for the results on display.  Its reads are
\* getAnalysisHistory, getIssuesForAnalysis, getEverResolvedFingerprints and
\* getCurrentStatusMap: each returns the empty value without IndexedDB, and
\* none of them, nor computeDelta, catches the rejection of a failed read.
pageComputeDelta ==
  /\ page.pc = "results"
  /\ page.computeDelta = "none"
  /\ IF page.indexedDB /\ page.failing
     THEN /\ page' = [page EXCEPT !.computeDelta = "rejected"]
          /\ UNCHANGED storeVars
     ELSE /\ page' = [page EXCEPT !.computeDelta = "resolved"]
          /\ delta' = computeDelta(page.results)
          /\ UNCHANGED <<project, analyses, issues, now, currentResult, everMarkedResolved, statusUpdates>>

\* handleReset: setState('dashboard'); setResults(null); setError('');
\* setLastAnalysis(null).  issueStatusMap is not reset.
handleReset ==
  /\ page.pc = "results"
  /\ page' = [page EXCEPT !.state = "dashboard", !.results = NoResult, !.error = FALSE,
                          !.lastAnalysis = 0, !.pc = "idle"]
  /\ UNCHANGED storeVars

notPage == <<saveVars, healthVars, fingerprintVars, runVars, linkCheck, numerical, coverage, reader, pool, watcher>>

InitPage == Init

MountPage == mountPage /\ UNCHANGED notPage
HandleNewAnalysis == handleNewAnalysis /\ UNCHANGED notPage
HandleFolderSelected == handleFolderSelected /\ UNCHANGED notPage
CheckPreviousAnalysis == checkPreviousAnalysis /\ UNCHANGED notPage
PageAnalyzeProject == pageAnalyzeProject /\ UNCHANGED notPage
PageSaveAnalysis == pageSaveAnalysis /\ UNCHANGED notPage
PageGetIssueStatusMap == pageGetIssueStatusMap /\ UNCHANGED notPage
ShowResults == showResults /\ UNCHANGED notPage
PageComputeDelta == pageComputeDelta /\ UNCHANGED notPage
HandleReset == handleReset /\ UNCHANGED notPage

NextPage ==
  \/ MountPage
  \/ HandleNewAnalysis
  \/ HandleFolderSelected
  \/ CheckPreviousAnalysis
  \/ PageAnalyzeProject
  \/ PageSaveAnalysis
  \/ PageGetIssueStatusMap
  \/ ShowResults
  \/ PageComputeDelta
  \/ HandleReset

SpecPage == InitPage /\ [][NextPage]_vars

\* ------------------------------------- analyzer.ts: validateLinks alone
\* A path is the list of its segments ("docs/a.md" is <<"docs", "a.md">>); a
\* link path is written the same way and can hold "." and ".." segments.
Segments == {"a.md", "A.md", "docs", "..", "."}

\* String.prototype.toLowerCase on one segment and on a path
segmentToLowerCase(segment) == IF segment = "A.md" THEN "a.md" ELSE segment
pathToLowerCase(path) == [j \in 1..Len(path) |-> segmentToLowerCase(path[j])]

\* Paths of the files readDirectory can find in the project.
ProjectPathList == << <<"a.md">>, <<"docs", "a.md">>, <<"docs", "A.md">> >>
ProjectPaths == { ProjectPathList[j] : j \in 1..Len(ProjectPathList) }

LinkPaths == SeqsUpTo(Segments, MaxLinkSegments)

\* The part of a link url after '#', when there is one.
NoAnchor == "(none)"
Anchors == {NoAnchor, "Setup", "usage"}
HeadingTexts == {"Setup"}

slugify(text) == IF text = "Setup" THEN "setup" ELSE text

\* link.url.split('#') as [linkPath, anchor]; isInternal is false for http(s)
Links == [linkPath : LinkPaths, anchor : Anchors, isInternal : BOOLEAN]

\* md.filePath.substring(0, md.filePath.lastIndexOf('/'))
sourceDirOf(filePath) == SubSeq(filePath, 1, Len(filePath) - 1)

\* sourceDir ? `${sourceDir}/${linkPath}` : linkPath
targetPathOf(filePath, linkPath) == sourceDirOf(filePath) \o linkPath

\* The headings recorded for a path in fileMap, <<>> when it has no entry.
fileMapGet(parsedMarkdown, normalizedPath) ==
  LET at == { j \in 1..Len(parsedMarkdown) :
                pathToLowerCase(parsedMarkdown[j].filePath) = normalizedPath }
      last == CHOOSE j \in at : \A l \in at : l <= j
  IN IF at = {} THEN <<>>
     ELSE << { slugify(h) : h \in parsedMarkdown[last].headings } >>

\* What validateLinks pushes for one link of one document.
validateLink(parsedMarkdown, allFiles, md, n) ==
  LET link == md.links[n]
      issue(severity) ==
        [ type |-> "broken-link", severity |-> severity, filePath |-> md.filePath, link |-> n ]
      normalizedTarget == pathToLowerCase(targetPathOf(md.filePath, link.linkPath))
      fileExists == \E f \in allFiles : pathToLowerCase(f) = normalizedTarget
      currentFileHeadings == fileMapGet(parsedMarkdown, pathToLowerCase(md.filePath))
      targetHeadings == fileMapGet(parsedMarkdown, normalizedTarget)
  IN IF ~link.isInternal THEN <<>>
     ELSE IF link.linkPath = <<>> /\ link.anchor # NoAnchor
     THEN IF currentFileHeadings # <<>> /\ slugify(link.anchor) \notin currentFileHeadings[1]
          THEN << issue("medium") >> ELSE <<>>
     ELSE IF ~fileExists THEN << issue("high") >>
     ELSE IF link.anchor # NoAnchor
             /\ targetHeadings # <<>> /\ slugify(link.anchor) \notin targetHeadings[1]
     THEN << issue("medium") >>
     ELSE <<>>

RECURSIVE validateLinksOf(_, _, _, _)
validateLinksOf(parsedMarkdown, allFiles, md, n) ==
  IF n > Len(md.links) THEN <<>>
  ELSE validateLink(parsedMarkdown, allFiles, md, n)
         \o validateLinksOf(parsedMarkdown, allFiles, md, n + 1)

RECURSIVE validateLinksFrom(_, _, _)
validateLinksFrom(parsedMarkdown, allFiles, d) ==
  IF d > Len(parsedMarkdown) THEN <<>>
  ELSE validateLinksOf(parsedMarkdown, allFiles, parsedMarkdown[d], 1)
         \o validateLinksFrom(parsedMarkdown, allFiles, d + 1)

validateLinks(parsedMarkdown, allFiles) == validateLinksFrom(parsedMarkdown, allFiles, 1)

\* The project: some files, of which one document carries links (one link,
\* or the same link twice) and every document has the same headings.
parsedPaths(allFiles) == SelectSeq(ProjectPathList, LAMBDA filePath : filePath \in allFiles)

InitLinkCheck ==
  /\ storeInit
  /\ savesIdle
  /\ healthIdle
  /\ fingerprintIdle
  /\ runIdle
  /\ pageIdle
  /\ numericalIdle
  /\ coverageIdle
  /\ readerIdle
  /\ poolIdle
  /\ watcherIdle
  /\ \E allFiles \in SUBSET ProjectPaths \ {{}} :
     \E source \in allFiles :
     \E link \in Links :
     \E copies \in 1..MaxLinks :
     \E headings \in SUBSET HeadingTexts :
       linkCheck =
         [ pc |-> "called",
           allFiles |-> allFiles,
           parsedMarkdown |->
             [ j \in 1..Cardinality(allFiles) |->
                 LET filePath == parsedPaths(allFiles)[j]
                 IN [ filePath |-> filePath,
                      links |-> IF filePath = source THEN [c \in 1..copies |-> link] ELSE <<>>,
                      headings |-> headings ] ],
           inconsistencies |-> <<>> ]

ValidateLinks ==
  /\ linkCheck.pc = "called"
  /\ linkCheck' = [linkCheck EXCEPT
                     !.inconsistencies = validateLinks(linkCheck.parsedMarkdown, linkCheck.allFiles),
                     !.pc = "returned"]
  /\ UNCHANGED <<storeVars, saveVars, healthVars, fingerprintVars, runVars, page, numerical, coverage, reader, pool, watcher>>

NextLinkCheck == ValidateLinks

SpecLinkCheck == InitLinkCheck /\ [][NextLinkCheck]_vars

\* ------------------------- numerical-detector.ts: values that disagree
\* A line of a document that COMBINED_PATTERN matches once and no skip
\* pattern matches: the keyword, value and unit groups of the match, and
\* the context-qualifier words the line holds besides.
NoUnit == "(none)"

NumericalKeywords == {"timeout", "Time-outs", "retries"}
Values == {3, 5, 5000}
Units == {NoUnit, "s", "ms"}

NumericalLines ==
  { l \in [keyword : NumericalKeywords, value : Values, unit : Units, words : {{}, {"max"}}] :
      /\ l.unit = NoUnit => l.value = 5000
      /\ l.unit = "s" => l.value # 5000
      /\ l.unit = "ms" => l.value = 5000
      /\ l.words # {} => (l.value = 5 /\ l.unit = "s") }

\* keyword.toLowerCase().replace(/[-_\s]+/g, '').replace(/s$/, '')
normalizeKeyword(keyword) ==
  CASE keyword = "timeout" -> "timeout"
    [] keyword = "Time-outs" -> "timeout"
    [] keyword = "retries" -> "retrie"

\* UNIT_NORMALIZATIONS, the first pattern that matches the unit
normalizeUnit(value, unit) ==
  IF unit = NoUnit THEN [normalized |-> value, baseUnit |-> "none"]
  ELSE IF unit = "ms" THEN [normalized |-> value * 1, baseUnit |-> "ms"]
  ELSE IF unit = "s" THEN [normalized |-> value * 1000, baseUnit |-> "ms"]
  ELSE [normalized |-> value, baseUnit |-> unit]

CONTEXT_QUALIFIERS == {"min", "max", "dev", "prod", "default"}

extractQualifiers(line) == line.words \cap CONTEXT_QUALIFIERS

\* The ExtractedValue records of one file, line by line.
extractFromFile(file, filePath) ==
  [ i \in 1..Len(file) |->
      LET n == normalizeUnit(file[i].value, file[i].unit)
      IN [ value |-> file[i].value,
           normalizedValue |-> n.normalized,
           keyword |-> file[i].keyword,
           normalizedKeyword |-> normalizeKeyword(file[i].keyword),
           unit |-> file[i].unit,
           baseUnit |-> n.baseUnit,
           lineNumber |-> i,
           filePath |-> filePath,
           contextQualifiers |-> extractQualifiers(file[i]) ] ]

RECURSIVE extractNumericalValuesFrom(_, _)
extractNumericalValuesFrom(files, f) ==
  IF f > Len(files) THEN <<>>
  ELSE extractFromFile(files[f], f) \o extractNumericalValuesFrom(files, f + 1)

extractNumericalValues(files) == extractNumericalValuesFrom(files, 1)

\* Keys of a Map in insertion order, for the key each value is filed under.
RECURSIVE insertionOrder(_)
insertionOrder(keys) ==
  IF keys = <<>> THEN <<>>
  ELSE LET before == insertionOrder(SubSeq(keys, 1, Len(keys) - 1))
           key == keys[Len(keys)]
       IN IF \E j \in 1..Len(before) : before[j] = key THEN before ELSE Append(before, key)

\* clusterByKeyword: normalized keyword -> its values in order of extraction
clusterKeys(values) == insertionOrder([j \in 1..Len(values) |-> values[j].normalizedKeyword])
clusterByKeyword(values, key) == SelectSeq(values, LAMBDA v : v.normalizedKeyword = key)

\* `${v.normalizedValue}:${v.baseUnit}`
byValueKey(v) == <<v.normalizedValue, v.baseUnit>>

RECURSIVE flat(_, _, _)
flat(values, keys, k) ==
  IF k > Len(keys) THEN <<>>
  ELSE SelectSeq(values, LAMBDA v : byValueKey(v) = keys[k]) \o flat(values, keys, k + 1)

\* the variant that compares the raw values and ignores the units
detectInClusterRawValues(values) ==
  LET byValue == insertionOrder([j \in 1..Len(values) |-> <<values[j].value, "">>])
      allValues == values
      hasQualifiers == \E j \in 1..Len(allValues) : allValues[j].contextQualifiers # {}
  IN IF Len(values) < 2 THEN <<>>
     ELSE IF Len(byValue) <= 1 THEN <<>>
     ELSE << [ keyword |-> values[1].keyword,
               values |-> allValues,
               severity |-> IF hasQualifiers THEN "low" ELSE "medium" ] >>

\* What detectNumericalInconsistencies pushes for one cluster.
detectInCluster(values) ==
  LET byValue == insertionOrder([j \in 1..Len(values) |-> byValueKey(values[j])])
      allValues == flat(values, byValue, 1)
      hasQualifiers == \E j \in 1..Len(allValues) : allValues[j].contextQualifiers # {}
  IN IF Len(values) < 2 THEN <<>>
     ELSE IF Len(byValue) <= 1 THEN <<>>
     ELSE << [ keyword |-> values[1].keyword,
               values |-> allValues,
               severity |-> IF hasQualifiers THEN "low" ELSE "medium" ] >>

RECURSIVE detectNumericalInconsistenciesFrom(_, _, _)
detectNumericalInconsistenciesFrom(values, keys, k) ==
  IF k > Len(keys) THEN <<>>
  ELSE detectInCluster(clusterByKeyword(values, keys[k]))
         \o detectNumericalInconsistenciesFrom(values, keys, k + 1)

detectNumericalInconsistencies(values) ==
  detectNumericalInconsistenciesFrom(values, clusterKeys(values), 1)

\* numericalToInconsistencies: one Inconsistency per NumericalInconsistency
numericalToInconsistencies(found) ==
  [ j \in 1..Len(found) |->
      [ type |-> "numerical-inconsistency",
        severity |-> found[j].severity,
        keyword |-> found[j].keyword,
        filePath |-> found[j].values[1].filePath,
        lineNumber |-> found[j].values[1].lineNumber ] ]

\* Two documents: the first line stands in the first one, the other lines in
\* the second.
InitNumerical ==
  /\ storeInit
  /\ savesIdle
  /\ healthIdle
  /\ fingerprintIdle
  /\ runIdle
  /\ pageIdle
  /\ linkCheckIdle
  /\ coverageIdle
  /\ readerIdle
  /\ poolIdle
  /\ watcherIdle
  /\ \E lines \in SeqsUpTo(NumericalLines, MaxLines) :
       numerical =
         [ pc |-> "extract",
           files |-> IF lines = <<>> THEN << <<>>, <<>> >> ELSE << <<Head(lines)>>, Tail(lines) >>,
           values |-> <<>>,
           inconsistencies |-> <<>> ]

\* const extractedValues = extractNumericalValues(...)
ExtractNumericalValues ==
  /\ numerical.pc = "extract"
  /\ numerical' = [numerical EXCEPT !.values = extractNumericalValues(numerical.files), !.pc = "detect"]
  /\ UNCHANGED <<storeVars, saveVars, healthVars, fingerprintVars, runVars, page, linkCheck, coverage, reader, pool, watcher>>

\* clusterByKeyword, detectNumericalInconsistencies, numericalToInconsistencies
DetectNumericalInconsistencies ==
  /\ numerical.pc = "detect"
  /\ numerical' = [numerical EXCEPT
                     !.inconsistencies =
                        numericalToInconsistencies(detectNumericalInconsistencies(numerical.values)),
                     !.pc = "returned"]
  /\ UNCHANGED <<storeVars, saveVars, healthVars, fingerprintVars, runVars, page, linkCheck, coverage, reader, pool, watcher>>

NextNumerical == ExtractNumericalValues \/ DetectNumericalInconsistencies

SpecNumerical == InitNumerical /\ [][NextNumerical]_vars

\* ------------------------------ coverage-analyzer.ts: documented exports
\* The exported names of the project.  "parse" is public; "_parse" starts
\* with an underscore and "ab" is shorter than 3 characters.
PublicName == "parse"
ExportLists ==
  { <<>>, <<"parse">>, <<"_parse">>, <<"ab">>, <<"parse", "_parse">>, <<"ab", "parse">>,
    <<"parse", "parse">>, <<"_parse", "ab">> }

startsWithUnderscore(name) == name = "_parse"
length(name) == IF name = "ab" THEN 2 ELSE IF name = "_parse" THEN 6 ELSE 5

\* A line of a document holds no mention of "parse" or one mention: in
\* backticks (`parse`), as a call (parse( ) or as a bare word, with the
\* mention beginning at a column of the line.
Columns == {0, 10}
DocLines ==
  { [kind |-> "none", column |-> 0] } \cup [kind : {"backtick", "call", "word"}, column : Columns]

\* Paths of documents: one matches docPatterns (readme\.md$), one matches none.
DocPaths == {"README.md", "notes.md"}
matchesDocPatterns(filePath) == filePath = "README.md"

\* The three patterns of findMentionsInDocs on a line: where the match of the
\* pattern begins and ends in the line, or <<>> when the line has no match.
\* 1: `name`, 2: \bname\s*\(, 3: \bname\b.
patternMatch(pattern, line) ==
  LET n == length(PublicName)
  IN CASE line.kind = "backtick" /\ pattern = 1 -> <<line.column, line.column + n + 2>>
       [] line.kind = "backtick" /\ pattern = 3 -> <<line.column + 1, line.column + 1 + n>>
       [] line.kind = "call" /\ pattern = 2 -> <<line.column, line.column + n + 1>>
       [] line.kind = "call" /\ pattern = 3 -> <<line.column, line.column + n>>
       [] line.kind = "word" /\ pattern = 3 -> <<line.column, line.column + n>>
       [] OTHER -> <<>>

\* RegExp.prototype.test of a pattern with the g flag: the search begins at
\* lastIndex; a match sets lastIndex to its end, a failure sets it to 0.
test(pattern, line, lastIndex) ==
  LET match == patternMatch(pattern, line)
      found == match # <<>> /\ match[1] >= lastIndex[pattern]
  IN [ found |-> found,
       lastIndex |-> [lastIndex EXCEPT ![pattern] = IF found THEN match[2] ELSE 0] ]

\* for (const pattern of patterns) { if (pattern.test(line)) { push; break }
\* pattern.lastIndex = 0 }, from the given pattern on.
RECURSIVE testPatterns(_, _, _)
testPatterns(pattern, line, lastIndex) ==
  IF pattern > 3 THEN [found |-> FALSE, lastIndex |-> lastIndex]
  ELSE LET tested == test(pattern, line, lastIndex)
       IN IF tested.found THEN tested
          ELSE testPatterns(pattern + 1, line, tested.lastIndex)

\* The lines of all documents in the order findMentionsInDocs visits them.
RECURSIVE allLines(_, _)
allLines(parsedMarkdown, d) ==
  IF d > Len(parsedMarkdown) THEN <<>>
  ELSE [ i \in 1..Len(parsedMarkdown[d].lines) |->
           [ filePath |-> parsedMarkdown[d].filePath, lineNumber |-> i,
             line |-> parsedMarkdown[d].lines[i] ] ]
         \o allLines(parsedMarkdown, d + 1)

RECURSIVE mentionsIn(_, _, _)
mentionsIn(lines, from, lastIndex) ==
  IF from > Len(lines) THEN <<>>
  ELSE LET tested == testPatterns(1, lines[from].line, lastIndex)
       IN (IF tested.found
           THEN << [filePath |-> lines[from].filePath, lineNumber |-> lines[from].lineNumber] >>
           ELSE <<>>)
          \o mentionsIn(lines, from + 1, tested.lastIndex)

\* Only lines that mention "parse" are modelled, so no other name is found.
findMentionsInDocs(exportName, parsedMarkdown) ==
  IF exportName = PublicName
  THEN mentionsIn(allLines(parsedMarkdown, 1), 1, <<0, 0, 0>>)
  ELSE <<>>

isProperlyDocumented(mentions) ==
  IF Len(mentions) = 0 THEN FALSE
  ELSE IF \E j \in 1..Len(mentions) : matchesDocPatterns(mentions[j].filePath) THEN TRUE
  ELSE Len(mentions) >= 2

\* analyzeDocumentationCoverage and coverageToInconsistencies: the
\* undocumented-export issues, one per export that is neither skipped nor
\* documented.
RECURSIVE undocumentedExports(_, _, _)
undocumentedExports(exports, parsedMarkdown, n) ==
  IF n > Len(exports) THEN <<>>
  ELSE (IF startsWithUnderscore(exports[n]) THEN <<>>
        ELSE IF length(exports[n]) < 3 THEN <<>>
        ELSE IF isProperlyDocumented(findMentionsInDocs(exports[n], parsedMarkdown)) THEN <<>>
        ELSE << [type |-> "undocumented-export", export |-> n, name |-> exports[n]] >>)
       \o undocumentedExports(exports, parsedMarkdown, n + 1)

InitCoverage ==
  /\ storeInit
  /\ savesIdle
  /\ healthIdle
  /\ fingerprintIdle
  /\ runIdle
  /\ pageIdle
  /\ linkCheckIdle
  /\ numericalIdle
  /\ readerIdle
  /\ poolIdle
  /\ watcherIdle
  /\ \E exports \in ExportLists :
     \E first \in DocPaths, second \in DocPaths :
     \E firstLines \in SeqsUpTo(DocLines, MaxDocLines), secondLines \in SeqsUpTo(DocLines, MaxDocLines) :
       coverage =
         [ pc |-> "called",
           exports |-> exports,
           parsedMarkdown |-> << [filePath |-> first, lines |-> firstLines],
                                 [filePath |-> second, lines |-> secondLines] >>,
           inconsistencies |-> <<>> ]

AnalyzeDocumentationCoverage ==
  /\ coverage.pc = "called"
  /\ coverage' = [coverage EXCEPT
                    !.inconsistencies = undocumentedExports(coverage.exports, coverage.parsedMarkdown, 1),
                    !.pc = "returned"]
  /\ UNCHANGED <<storeVars, saveVars, healthVars, fingerprintVars, runVars, page, linkCheck, numerical, reader, pool, watcher>>

NextCoverage == AnalyzeDocumentationCoverage

SpecCoverage == InitCoverage /\ [][NextCoverage]_vars

\* ------------------------------ streaming-reader.ts: readFilesWithProgress
\* reader.files is files.length and a file is its position 1..files.length;
\* reader.sizing is the file whose getFileSize is awaited (0: none), and
\* reader.workers[w] is the w-th processFile() call with the file it reads.

\* Array(files.length): one worker per file
workerCountPerFile(limit, files) == files

\* Array(Math.min(concurrency, files.length))
workerCount(limit, files) == IF limit < files THEN limit ELSE files

\* readFilesWithProgress(files, onProgress, concurrency = 4)
readFilesWithProgressCall(files, limit) ==
  /\ reader.pc = "idle"
  /\ reader' = [reader EXCEPT !.pc = "sizes", !.files = files, !.concurrency = limit]

\* for (const file of files) { const size = await getFileSize(file.handle) ... }:
\* the next getFileSize is called
readerGetFileSizeCalled ==
  /\ reader.pc = "sizes"
  /\ reader.sizing = 0
  /\ reader.sized < reader.files
  /\ reader' = [reader EXCEPT !.sizing = reader.sized + 1]

\* the awaited getFileSize settles; a rejection rejects readFilesWithProgress
readerGetFileSizeSettled ==
  /\ reader.pc = "sizes"
  /\ reader.sizing # 0
  /\ \/ reader' = [reader EXCEPT !.sizing = 0, !.sized = @ + 1]
     \/ reader' = [reader EXCEPT !.sizing = 0, !.pc = "settled", !.outcome = "rejected"]

\* Array(...).fill(null).map(() => processFile()): each call runs up to its
\* first await, so it takes the next index and starts that read; then
\* await Promise.all(workers).
startWorkers ==
  /\ reader.pc = "sizes"
  /\ reader.sizing = 0
  /\ reader.sized = reader.files
  /\ LET count == workerCount(reader.concurrency, reader.files)
     IN reader' = [reader EXCEPT
                     !.workers = [w \in ReadWorkers |->
                                    IF w <= count THEN [state |-> "reading", index |-> w]
                                    ELSE [state |-> "none", index |-> 0]],
                     !.currentIndex = count,
                     !.pc = IF count = 0 THEN "settled" ELSE "workers",
                     !.outcome = IF count = 0 THEN "resolved" ELSE @]

\* processFile after await readFileWithSizeCheck: the read of worker w
\* settles.  On success the result is stored and the loop takes the next
\* index, if any is left; on failure the worker rejects, and Promise.all
\* with it, while the other workers go on.
readSettled(w) ==
  /\ reader.pc = "workers"
  /\ reader.workers[w].state = "reading"
  /\ \E ok \in BOOLEAN :
       LET more == reader.currentIndex < reader.files
           workers ==
             [reader.workers EXCEPT
                ![w] = IF ~ok THEN [state |-> "rejected", index |-> 0]
                       ELSE IF more THEN [state |-> "reading", index |-> reader.currentIndex + 1]
                       ELSE [state |-> "resolved", index |-> 0]]
           allResolved == \A v \in ReadWorkers : workers[v].state \in {"none", "resolved"}
           running == \E v \in ReadWorkers : workers[v].state = "reading"
       IN reader' = [reader EXCEPT
                       !.workers = workers,
                       !.results = IF ok THEN @ \cup {reader.workers[w].index} ELSE @,
                       !.currentIndex = IF ok /\ more THEN @ + 1 ELSE @,
                       !.outcome = IF @ # "pending" THEN @
                                   ELSE IF ~ok THEN "rejected"
                                   ELSE IF allResolved THEN "resolved" ELSE @,
                       !.pc = IF running THEN "workers" ELSE "settled"]

notReader == <<storeVars, saveVars, healthVars, fingerprintVars, runVars, page, linkCheck, numerical, coverage, pool, watcher>>

InitReader == Init

ReadFilesWithProgressCall ==
  /\ \E files \in 0..MaxReadFiles, limit \in 1..MaxConcurrency : readFilesWithProgressCall(files, limit)
  /\ UNCHANGED notReader
ReaderGetFileSizeCalled == readerGetFileSizeCalled /\ UNCHANGED notReader
ReaderGetFileSizeSettled == readerGetFileSizeSettled /\ UNCHANGED notReader
StartWorkers == startWorkers /\ UNCHANGED notReader
ReadSettled ==
  /\ \E w \in ReadWorkers : readSettled(w)
  /\ UNCHANGED notReader

NextReader ==
  \/ ReadFilesWithProgressCall
  \/ ReaderGetFileSizeCalled
  \/ ReaderGetFileSizeSettled
  \/ StartWorkers
  \/ ReadSettled

SpecReader == InitReader /\ [][NextReader]_vars

\* ------------------------------------------- worker-pool.ts: WorkerPool
\* Math.min(poolSize || (navigator ? navigator.hardwareConcurrency : 4) || 4, 4),
\* with 0 for an argument or a hardwareConcurrency that is undefined
WorkerPoolConstructor(poolSize, hardwareConcurrency) ==
  Min(IF poolSize # 0 THEN poolSize ELSE IF hardwareConcurrency # 0 THEN hardwareConcurrency ELSE 4, 4)

\* workerAvailable.findIndex((available) => available), 0 for -1
findAvailable(workerAvailable) ==
  LET free == { i \in 1..Len(workerAvailable) : workerAvailable[i] }
  IN IF free = {} THEN 0 ELSE CHOOSE i \in free : \A j \in free : i <= j

\* processQueue on a pool state: hands the first queued task to the first
\* available worker, if there is one of each.
processQueue(p) ==
  LET availableIndex == findAvailable(p.workerAvailable)
      task == Head(p.taskQueue)
  IN IF Len(p.taskQueue) = 0 THEN p
     ELSE IF availableIndex = 0 THEN p
     ELSE [p EXCEPT
             !.taskQueue = Tail(@),
             !.workerAvailable[availableIndex] = FALSE,
             !.activeTasks = @ \cup {task},
             !.inbox[availableIndex] = Append(@, task)]

\* initialize(workerScript): creates poolSize workers, all available
initialize ==
  /\ pool.poolSize > 0
  /\ ~pool.isInitialized
  /\ pool' = [pool EXCEPT
                !.workers = pool.poolSize,
                !.workerAvailable = [i \in 1..pool.poolSize |-> TRUE],
                !.inbox = [i \in 1..pool.poolSize |-> <<>>],
                !.isInitialized = TRUE]

\* submitTask(type, payload), reached from parseMarkdown, parseCode and
\* parseBatch: taskQueue.push(task); processQueue()
submitTask(type, task) ==
  /\ pool.poolSize > 0
  /\ pool.promise[task] = "none"
  /\ \A earlier \in Tasks : earlier < task => pool.promise[earlier] # "none"
  /\ pool' = processQueue([pool EXCEPT
                             !.taskQueue = Append(@, task),
                             !.promise[task] = "pending",
                             !.submittedEarly = @ \/ ~pool.isInitialized])

\* Worker i answers the task it is working on, with a result or an error
\* message: handleWorkerMessage(i, message).
handleWorkerMessage(workerIndex, error) ==
  /\ workerIndex \in 1..pool.workers
  /\ pool.inbox[workerIndex] # <<>>
  /\ LET id == Head(pool.inbox[workerIndex])
         received == [pool EXCEPT !.inbox[workerIndex] = Tail(@)]
     IN pool' =
          IF id \notin pool.activeTasks THEN received
          ELSE processQueue([received EXCEPT
                               !.activeTasks = @ \ {id},
                               !.workerAvailable[workerIndex] = TRUE,
                               !.promise[id] = IF error THEN "rejected" ELSE "resolved"])

\* Worker i raises an error event: handleWorkerError(i, e).  The error ends
\* the task the worker is working on (abandoned), which then gets no answer,
\* or comes from elsewhere in the script and leaves the task running.
handleWorkerError(workerIndex, abandoned) ==
  /\ workerIndex \in 1..pool.workers
  /\ abandoned => pool.inbox[workerIndex] # <<>>
  /\ pool' = processQueue([pool EXCEPT
                             !.inbox[workerIndex] = IF abandoned THEN Tail(@) ELSE @,
                             !.workerAvailable[workerIndex] = TRUE,
                             !.errorEvents = TRUE])

\* terminate(): the workers are terminated and every list is emptied
terminate ==
  /\ pool.poolSize > 0
  /\ pool' = [pool EXCEPT
                !.workers = 0,
                !.workerAvailable = <<>>,
                !.inbox = <<>>,
                !.taskQueue = <<>>,
                !.activeTasks = {},
                !.isInitialized = FALSE,
                !.terminated = TRUE]

notPool == <<storeVars, saveVars, healthVars, fingerprintVars, runVars, page, linkCheck, numerical, coverage, reader, watcher>>

\* new WorkerPool(poolSize?)
InitPool ==
  /\ storeInit
  /\ savesIdle
  /\ healthIdle
  /\ fingerprintIdle
  /\ runIdle
  /\ pageIdle
  /\ linkCheckIdle
  /\ numericalIdle
  /\ coverageIdle
  /\ readerIdle
  /\ watcherIdle
  /\ \E poolSize \in {0, 1, 2, 8}, hardwareConcurrency \in {0, 2, 16} :
       pool = [NoPool EXCEPT !.poolSize = WorkerPoolConstructor(poolSize, hardwareConcurrency)]

Initialize == initialize /\ UNCHANGED notPool
SubmitTask ==
  /\ \E type \in {"PARSE_MARKDOWN", "PARSE_CODE", "PARSE_BATCH"}, task \in Tasks : submitTask(type, task)
  /\ UNCHANGED notPool
HandleWorkerMessage ==
  /\ \E workerIndex \in 1..4, error \in BOOLEAN : handleWorkerMessage(workerIndex, error)
  /\ UNCHANGED notPool
HandleWorkerError ==
  /\ \E workerIndex \in 1..4, abandoned \in BOOLEAN : handleWorkerError(workerIndex, abandoned)
  /\ UNCHANGED notPool
Terminate == terminate /\ UNCHANGED notPool

NextPool ==
  \/ Initialize
  \/ SubmitTask
  \/ HandleWorkerMessage
  \/ HandleWorkerError
  \/ Terminate

SpecPool == InitPool /\ [][NextPool]_vars

\* A worker that has a task answers it, and a pool that was constructed is
\* initialized; submissions, error events and terminate() happen or not.
SpecPoolFair ==
  /\ InitPool
  /\ [][NextPool]_vars
  /\ WF_vars(HandleWorkerMessage)
  /\ WF_vars(Initialize)

\* ------------------------------------------- file-watcher.ts: DirectoryWatcher
\* setInterval: an interval not in use
setInterval(timers) == CHOOSE id \in 1..MaxTimers : id \notin timers /\ \A other \in 1..MaxTimers \ timers : id <= other

\* detectChanges(newHashes).length > 0: a path added, modified or deleted
detectChanges(fileHashes, newHashes) == newHashes # fileHashes

\* start() up to its await of the initial scan
start ==
  /\ watcher.starting < MaxPending
  /\ IF watcher.intervalId # 0
       THEN watcher' = [watcher EXCEPT !.callback = "none"]
       ELSE watcher' = [watcher EXCEPT
                          !.starting = @ + 1,
                          !.stopped = FALSE,
                          !.overlapped = @ \/ watcher.starting > 0 \/ watcher.scanning > 0,
                          !.callback = "none"]

\* start() after its await: the scan failed (onError, return) or gave the
\* baseline, and the polling begins
startScanSettled(failed, newHashes) ==
  /\ watcher.starting > 0
  /\ ~failed => Cardinality(watcher.timers) < MaxTimers
  /\ watcher' =
       IF failed
         THEN [watcher EXCEPT !.starting = @ - 1, !.callback = "onError"]
         ELSE [watcher EXCEPT
                 !.starting = @ - 1,
                 !.fileHashes = newHashes,
                 !.intervalId = setInterval(watcher.timers),
                 !.timers = @ \cup {setInterval(watcher.timers)},
                 !.callback = "none"]

\* the callback of interval id up to its await of scanDirectory()
tick(id) ==
  /\ id \in watcher.timers
  /\ watcher.scanning < MaxPending
  /\ watcher' =
       IF ~watcher.enabled \/ watcher.isScanning
         THEN [watcher EXCEPT !.callback = "none"]
         ELSE [watcher EXCEPT !.isScanning = TRUE, !.scanning = @ + 1, !.callback = "none"]

\* the callback after its await: changes are reported, an error is
\* reported, or nothing; finally isScanning = false
tickScanSettled(failed, newHashes) ==
  /\ watcher.scanning > 0
  /\ watcher' =
       IF failed
         THEN [watcher EXCEPT !.scanning = @ - 1, !.isScanning = FALSE, !.callback = "onError"]
       ELSE IF detectChanges(watcher.fileHashes, newHashes)
         THEN [watcher EXCEPT
                 !.scanning = @ - 1,
                 !.fileHashes = newHashes,
                 !.isScanning = FALSE,
                 !.callback = "onChanges"]
       ELSE [watcher EXCEPT !.scanning = @ - 1, !.isScanning = FALSE, !.callback = "none"]

\* stop()
stop ==
  watcher' = [watcher EXCEPT
                !.timers = IF watcher.intervalId # 0 THEN @ \ {watcher.intervalId} ELSE @,
                !.intervalId = 0,
                !.isScanning = FALSE,
                !.stopped = TRUE,
                !.overlapped = @ \/ watcher.starting > 0 \/ watcher.scanning > 0,
                !.callback = "none"]

\* setConfig({ enabled })
setConfig(enabled) ==
  watcher' = [watcher EXCEPT !.enabled = enabled, !.callback = "none"]

notWatcher == <<storeVars, saveVars, healthVars, fingerprintVars, runVars, page, linkCheck, numerical, coverage, reader, pool>>

\* new DirectoryWatcher(dirHandle, callbacks)
InitWatcher == Init

Start == start /\ UNCHANGED notWatcher
StartScanSettled ==
  /\ \E failed \in BOOLEAN, newHashes \in Hashes : startScanSettled(failed, newHashes)
  /\ UNCHANGED notWatcher
Tick ==
  /\ \E id \in 1..MaxTimers : tick(id)
  /\ UNCHANGED notWatcher
TickScanSettled ==
  /\ \E failed \in BOOLEAN, newHashes \in Hashes : tickScanSettled(failed, newHashes)
  /\ UNCHANGED notWatcher
Stop == stop /\ UNCHANGED notWatcher
SetConfig ==
  /\ \E enabled \in BOOLEAN : setConfig(enabled)
  /\ UNCHANGED notWatcher

NextWatcher ==
  \/ Start
  \/ StartScanSettled
  \/ Tick
  \/ TickScanSettled
  \/ Stop
  \/ SetConfig

SpecWatcher == InitWatcher /\ [][NextWatcher]_vars

\* ------------------------------------------------- chronology of the runs
\* The run saved last, and the run saved immediately before a given run.
LatestRun == CHOOSE a \in analyses : \A b \in analyses : b.timestamp <= a.timestamp

RunBefore(a) ==
  CHOOSE b \in analyses :
    /\ b.timestamp < a.timestamp
    /\ \A c \in analyses : c.timestamp < a.timestamp => c.timestamp <= b.timestamp

RunIssues(a) == { i \in issues : i.analysisId = a.id }
RunFingerprints(a) == { i.fingerprint : i \in RunIssues(a) }
CurrentFingerprints == KeySet(currentResult.inconsistencies)

DeltaEntries(fingerprint) ==
  { j \in 1..Len(delta.issues) : delta.issues[j].fingerprint = fingerprint }

Classified(fingerprint, classification) ==
  \E j \in DeltaEntries(fingerprint) : delta.issues[j].classification = classification

\* Two runs stored the same issues (same fingerprints and severities, with
\* the same multiplicities) and the same health score.
SameScan(a, b) ==
  /\ a.healthScore = b.healthScore
  /\ \A fp \in Fingerprints, sev \in Severities :
       Cardinality({ i \in RunIssues(a) : i.fingerprint = fp /\ i.severity = sev })
         = Cardinality({ i \in RunIssues(b) : i.fingerprint = fp /\ i.severity = sev })

C3_ResolvedThenReturnsIsReintroduced ==
  (delta.computed /\ Cardinality(analyses) >= 3) =>
    LET run3 == LatestRun
        run2 == RunBefore(run3)
        run1 == RunBefore(run2)
    IN \A fp \in Fingerprints :
         ( /\ \E i \in RunIssues(run1) :
                /\ i.fingerprint = fp
                /\ i.status = "resolved"
                /\ i.statusSetAt = run1.runNumber
           /\ fp \notin RunFingerprints(run2)
           /\ fp \in RunFingerprints(run3) )
         => Classified(fp, "reintroduced")

\* ----------------------------------------------------------------- C4
\* C4: every fingerprint that was marked resolved at any time is in the
\* ever-resolved set computeDelta uses, whatever happened to its status since.
C4_EverResolvedKeepsHistory ==
  everMarkedResolved \subseteq getEverResolvedFingerprints

\* ----------------------------------------------------------------- C5
\* C5: a fingerprint present in an earlier run, absent from the run before
\* the latest one and present in the latest one, none of whose stored issues
\* was ever marked resolved, is classified new by the delta of the latest run.
\* Stated for fingerprints whose status the user never changed at all.
C5_ReturnsWithoutResolveIsNew ==
  (delta.computed /\ Cardinality(analyses) >= 3) =>
    \A fp \in Fingerprints :
      ( /\ \E a \in analyses :
             /\ a.timestamp < RunBefore(LatestRun).timestamp
             /\ fp \in RunFingerprints(a)
        /\ fp \notin RunFingerprints(RunBefore(LatestRun))
        /\ fp \in RunFingerprints(LatestRun)
        /\ fp \notin everMarkedResolved
        /\ \A i \in issues : i.fingerprint = fp => i.statusSetAt = 0 )
      => Classified(fp, "new")

\* ----------------------------------------------------------------- C6
\* C6: a fingerprint whose stored issue the user set to ignored before the
\* latest run was saved, and left ignored, is classified ignored by the delta
\* of the latest run when that run contains it.
C6_IgnoredStaysIgnored ==
  delta.computed =>
    \A fp \in CurrentFingerprints :
      ( /\ \E i \in issues :
             /\ i.fingerprint = fp
             /\ i.status = "ignored"
             /\ i.statusSetAt < LatestRun.runNumber
        /\ \A i \in issues :
             i.fingerprint = fp => (i.status = "ignored" \/ i.statusSetAt = 0) )
      => Classified(fp, "ignored")

\* ----------------------------------------------------------------- C7
\* C7: when the latest run and the run saved immediately before it stored the
\* same scan, the delta of the latest run has no new and no resolved issue,
\* classifies every current fingerprint as persisting and has healthDelta 0.
\* Stated for histories in which the user changed no status.
C7_IdenticalRescanAllPersisting ==
  ( /\ delta.computed
    /\ Cardinality(analyses) >= 2
    /\ SameScan(LatestRun, RunBefore(LatestRun))
    /\ statusUpdates = 0 )
  => /\ delta.newCount = 0
     /\ delta.resolvedCount = 0
     /\ \A fp \in CurrentFingerprints : Classified(fp, "persisting")
     /\ delta.healthDelta = 0

\* ----------------------------------------------------------------- C8
\* C8 as stated: with no previous run the result is a first-run result in
\* which no issue is given a classification.
C8_FirstRunNoClassification ==
  (delta.computed /\ Cardinality(analyses) <= 1) =>
    /\ delta.isFirstRun
    /\ delta.issues = <<>>

\* C8 amended: with no previous run computeDelta returns isFirstRun with no
\* previous health score and healthDelta 0; it still gives every current
\* fingerprint one classification, which is new, reintroduced or ignored, and
\* nothing is persisting or resolved.
C8_FirstRunResult ==
  (delta.computed /\ Cardinality(analyses) <= 1) =>
    /\ delta.isFirstRun
    /\ delta.previousHealthScore = Null
    /\ delta.healthDelta = 0
    /\ delta.persistingCount = 0
    /\ delta.resolvedCount = 0
    /\ delta.healthAttribution.fromResolvedIssues = 0
    /\ \A fp \in CurrentFingerprints :
         \E j \in DeltaEntries(fp) :
           delta.issues[j].classification \in {"new", "reintroduced", "ignored"}
    /\ Len(delta.issues) = Cardinality(CurrentFingerprints)

\* A first run with issues, all of which are classified.
C8_Witness ==
  /\ delta.computed
  /\ Cardinality(analyses) = 1
  /\ delta.isFirstRun
  /\ delta.newCount > 0

\* ----------------------------------------------------------------- C9
\* C9: getAnalysisHistory returns the runs newest first, so with the current
\* run saved, index 1 of the two most recent analyses is the run saved
\* immediately before it.
C9_HistoryNewestFirst ==
  LET history == getAnalysisHistory(Cardinality(analyses))
  IN /\ \A j, k \in 1..Len(history) : j < k => history[j].timestamp > history[k].timestamp
     /\ Cardinality(analyses) >= 2 =>
          getAnalysisHistory(2)[previousAnalysisIndex] = RunBefore(LatestRun)

\* ---------------------------------------------------------------- C10
\* C10: fromNewIssues + fromResolvedIssues + fromSeverityMix = healthDelta,
\* fromNewIssues is minus the penalties of the new and reintroduced entries
\* and fromResolvedIssues is plus the penalties of the resolved entries.
PenaltyPoints(severity) ==
  IF severity = "high" THEN 10 ELSE IF severity = "medium" THEN 5 ELSE 2

RECURSIVE PenaltyOver(_)
PenaltyOver(entries) ==
  IF entries = {} THEN 0
  ELSE LET j == CHOOSE j \in entries : TRUE
       IN PenaltyPoints(delta.issues[j].severity) + PenaltyOver(entries \ {j})

C10_AttributionClosure ==
  delta.computed =>
    LET a == delta.healthAttribution
        added == { j \in 1..Len(delta.issues) :
                     delta.issues[j].classification \in {"new", "reintroduced"} }
        gone == { j \in 1..Len(delta.issues) : delta.issues[j].classification = "resolved" }
    IN /\ a.fromNewIssues + a.fromResolvedIssues + a.fromSeverityMix = delta.healthDelta
       /\ a.fromNewIssues = 0 - PenaltyOver(added)
       /\ a.fromResolvedIssues = PenaltyOver(gone)

\* All three terms of the attribution are nonzero at once.
C10_Witness ==
  /\ delta.computed
  /\ delta.healthAttribution.fromNewIssues < 0
  /\ delta.healthAttribution.fromResolvedIssues > 0
  /\ delta.healthAttribution.fromSeverityMix # 0

\* ---------------------------------------------------------------- C11
\* C11: the persisted runs of the project carry strictly increasing
\* runNumbers in the order they were saved, so no two of them share a
\* runNumber, whatever way the steps of the saveAnalysis calls interleave.
C11_RunNumberStrictlyIncreasing ==
  \A a, b \in analyses :
    /\ a # b => a.runNumber # b.runNumber
    /\ a.timestamp < b.timestamp => a.runNumber < b.runNumber

\* ---------------------------------------------------------------- C12
\* C12: every stored issue carries as firstSeenAt the timestamp of the
\* earliest run of the project that stored an issue of its fingerprint,
\* whichever later run stored it.  Stated for saveAnalysis calls that run one
\* after the other.
FirstRunWith(fingerprint) ==
  CHOOSE a \in analyses :
    /\ fingerprint \in RunFingerprints(a)
    /\ \A b \in analyses : fingerprint \in RunFingerprints(b) => a.timestamp <= b.timestamp

C13_StatusPersistsAcrossReanalysis ==
  \A fp \in CurrentFingerprints :
    \A i \in issues :
      ( /\ i.fingerprint = fp
        /\ i.status \in {"resolved", "ignored"}
        /\ i.statusSetAt > 0
        /\ i.statusSetAt < LatestRun.runNumber
        /\ \A k \in issues : (k.fingerprint = fp /\ k # i) => k.statusSetAt = 0 )
      => /\ getIssueStatusMap(currentResult.inconsistencies, fp) # <<>>
         /\ getIssueStatusMap(currentResult.inconsistencies, fp)[1].status = i.status

\* ------------------------------------------------- health score claims
\* The terms of the score as the specification names them, for the result
\* held in healthInput; fractions are kept over totalFiles.
IssueCount(severity) ==
  Cardinality({ j \in 1..Len(healthInput.inconsistencies) :
                  healthInput.inconsistencies[j].severity = severity })

SeverityPenaltySum == 10 * IssueCount("high") + 5 * IssueCount("medium") + 2 * IssueCount("low")

\* issuesPer10Files > 5, i.e. issues / totalFiles * 10 > 5
DensityApplies ==
  10 * Len(healthInput.inconsistencies) > 5 * healthInput.metadata.totalFiles

\* totalFiles * min(20, (issuesPer10Files - 5) * 2), or 0 when it does not apply
DensityPenaltyTimesFiles ==
  LET n == Len(healthInput.inconsistencies)
      t == healthInput.metadata.totalFiles
  IN IF ~DensityApplies THEN 0
     ELSE IF 20 * n - 10 * t < 20 * t THEN 20 * n - 10 * t ELSE 20 * t

CoverageAdj ==
  LET c == healthInput.metadata.coveragePercentage
  IN IF c = Undefined THEN 0 ELSE IF c >= 80 THEN 5 ELSE IF c < 50 THEN 0 - 10 ELSE 0

\* clamp to [0, 100] of num/den rounded to the nearest integer, halves up
ClampedRound(num, den) ==
  LET r == (2 * num + den) \div (2 * den)
  IN IF r < 0 THEN 0 ELSE IF r > 100 THEN 100 ELSE r

\* ---------------------------------------------------------------- C14
\* C14: calculateHealthScore returns an integer between 0 and 100 for every
\* result, whatever its issues, file count and coverage.
C14_HealthScoreInRange ==
  healthScore # NoScore => healthScore \in 0..100

\* Severity penalties alone exceed 100 points and the score is 0.
C14_Witness ==
  /\ healthScore = 0
  /\ SeverityPenaltySum > 100
  /\ healthInput.metadata.totalFiles > 0

\* ---------------------------------------------------------------- C15
\* C15 as stated: score = clamp(100 - sum of penalties - densityPenalty
\* - coverageAdj, 0, 100), with coverageAdj = +5 / -10 / 0.
C15_HealthFormulaAsStated ==
  (healthScore # NoScore /\ healthInput.metadata.totalFiles > 0) =>
    LET t == healthInput.metadata.totalFiles
    IN healthScore =
         ClampedRound((100 - SeverityPenaltySum - CoverageAdj) * t - DensityPenaltyTimesFiles, t)

\* C15 amended: for a result with at least one file, score = clamp(round(100
\* - sum of penalties - densityPenalty + coverageAdj), 0, 100): coverage of at
\* least 80 adds 5 points and coverage below 50 takes 10 points off.
C15_HealthFormula ==
  (healthScore # NoScore /\ healthInput.metadata.totalFiles > 0) =>
    LET t == healthInput.metadata.totalFiles
    IN healthScore =
         ClampedRound((100 - SeverityPenaltySum + CoverageAdj) * t - DensityPenaltyTimesFiles, t)

\* A capped density penalty together with a coverage bonus, not clamped.
C15_Witness ==
  /\ healthScore \in 1..99
  /\ DensityPenaltyTimesFiles = 20 * healthInput.metadata.totalFiles
  /\ healthInput.metadata.totalFiles > 0
  /\ CoverageAdj = 5

\* ---------------------------------------------------------------- C16
\* C16 as stated: without a density penalty the score is 100 minus 10, 5 and
\* 2 per high, medium and low issue, minus 10 for coverage below 50, plus 5
\* for coverage of at least 80, clamped; and a result with zero issues or
\* zero files scores 100.
NoDensityScore ==
  ClampedRound(100 - SeverityPenaltySum + CoverageAdj, 1)

C16_PenaltiesAndZeroCasesAsStated ==
  healthScore # NoScore =>
    /\ (healthInput.metadata.totalFiles > 0 /\ ~DensityApplies) => healthScore = NoDensityScore
    /\ (Len(healthInput.inconsistencies) = 0 \/ healthInput.metadata.totalFiles = 0)
         => healthScore = 100

\* C16 amended: the same, except that a result with zero issues scores 100
\* only when its coverage is absent or at least 50; with coverage below 50
\* it scores 90.  A result with zero files scores 100 whatever it holds.
C16_PenaltiesAndZeroCases ==
  healthScore # NoScore =>
    /\ (healthInput.metadata.totalFiles > 0 /\ ~DensityApplies) => healthScore = NoDensityScore
    /\ healthInput.metadata.totalFiles = 0 => healthScore = 100
    /\ (Len(healthInput.inconsistencies) = 0 /\ healthInput.metadata.totalFiles > 0)
         => healthScore = IF CoverageAdj < 0 THEN 90 ELSE 100

\* One issue of each severity in enough files for no density penalty, with
\* the coverage bonus at its threshold.
C16_Witness ==
  /\ healthScore = 100 - 17 + 5
  /\ ~DensityApplies
  /\ IssueCount("high") = 1 /\ IssueCount("medium") = 1 /\ IssueCount("low") = 1
  /\ healthInput.metadata.coveragePercentage = 80

\* -------------------------------------------------- fingerprint claims
\* A piece of text is a quoted path-like substring when it is a path standing
\* between two quote characters.
QuotedPath(lexemes, j) ==
  /\ lexemes[j].kind = "text"
  /\ lexemes[j].form \in Paths
  /\ j > 1 /\ j < Len(lexemes)
  /\ lexemes[j - 1].kind = "quote"
  /\ lexemes[j + 1].kind = "quote"

\* Two messages differ at most in the numbers of their line references,
\* column references and counts, in their quoted paths, in whitespace and in
\* letter case.
SameUpToDrift(a, b) ==
  /\ Len(a.lexemes) = Len(b.lexemes)
  /\ \A j \in 1..Len(a.lexemes) :
       /\ a.lexemes[j].kind = b.lexemes[j].kind
       /\ \/ a.lexemes[j].form = b.lexemes[j].form
          \/ QuotedPath(a.lexemes, j) /\ QuotedPath(b.lexemes, j)

\* ---------------------------------------------------------------- C17
\* C17: two issues of one type and one file whose messages differ only in
\* line references, column references, quoted paths, counts, whitespace and
\* letter case get the same fingerprint.
C17_DriftKeepsFingerprint ==
  ( /\ fingerprints # <<>>
    /\ issueA.type = issueB.type
    /\ issueA.filePath = issueB.filePath
    /\ SameUpToDrift(issueA.message, issueB.message) )
  => fingerprints[1] = fingerprints[2]

\* ---------------------------------------------------------------- C18
\* C18: two issues that differ in type, in file path, or in their messages by
\* more than line references, column references, quoted paths, counts,
\* whitespace and letter case get different fingerprints.
C18_SubstanceChangesFingerprint ==
  ( /\ fingerprints # <<>>
    /\ \/ issueA.type # issueB.type
       \/ issueA.filePath # issueB.filePath
       \/ ~SameUpToDrift(issueA.message, issueB.message) )
  => fingerprints[1] # fingerprints[2]

\* ----------------------------------------------------- analysis run claims
Finished == run.pc \in {"resolved", "rejected"}

ReadableFiles == { f \in 1..Len(run.files) : run.files[f].readError = "none" }

\* The issues the given detectors report on the given files.
IssuesOf(ds, fs) ==
  UNION { DetectorIssues(d, { f \in fs : run.files[f].kind = "markdown" },
                            { f \in fs : run.files[f].kind = "code" }) : d \in ds }

\* ---------------------------------------------------------------- C19
\* C19: when one detector throws during a run all of whose files can be read,
\* the run still returns a result, and the result holds the issues of every
\* other detector.
C19_DetectorFailureIsolated ==
  ( /\ Finished
    /\ Cardinality(run.throws) = 1
    /\ ReadableFiles = 1..Len(run.files) )
  => /\ run.pc = "resolved"
     /\ IssuesOf(Detectors \ run.throws, ReadableFiles) \subseteq run.inconsistencies

\* ---------------------------------------------------------------- C20
\* C20: when files cannot be read and no detector throws, the run still
\* returns a result, and the result holds the issues found in every file that
\* can be read, on the sequential and on the batched path, for markdown and
\* for source files.
C20_UnreadableFileSkipped ==
  ( /\ Finished
    /\ run.throws = {} )
  => /\ run.pc = "resolved"
     /\ IssuesOf(Detectors, ReadableFiles) \subseteq run.inconsistencies

\* ---------------------------------------------------------------- C21
\* C21: when IndexedDB is not available or the store operations of the call
\* fail, the page still reaches the results state with the full result of the
\* analysis and no error, and computeDelta for that result does not reject
\* but returns a first-run summary: isFirstRun is set and every issue of the
\* result is classified new.
PersistenceDown == ~page.indexedDB \/ page.failing

FirstRunSemantics ==
  /\ delta.computed
  /\ delta.isFirstRun
  /\ delta.previousHealthScore = Null
  /\ { delta.issues[j].fingerprint : j \in 1..Len(delta.issues) } = KeySet(page.results.inconsistencies)
  /\ \A j \in 1..Len(delta.issues) : delta.issues[j].classification = "new"

C21_PersistenceFailureDegrades ==
  (page.pc = "results" /\ PersistenceDown) =>
     /\ page.state = "results"
     /\ page.results = page.analysisResults
     /\ ~page.error
     /\ page.computeDelta # "rejected"
     /\ page.computeDelta = "resolved" => FirstRunSemantics

\* The part of C21 that concerns the page alone.
C21_PageReachesResults ==
  (page.pc = "results" /\ PersistenceDown) =>
     /\ page.state = "results"
     /\ page.results = page.analysisResults
     /\ ~page.error

\* The part of C21 that concerns computeDelta where IndexedDB is missing.
C21_UnavailableIsFirstRun ==
  (page.pc = "results" /\ ~page.indexedDB /\ page.computeDelta = "resolved") => FirstRunSemantics

\* ---------------------------------------------------------------- C22
\* A link path resolved against a directory: "." stays, ".." goes up one
\* directory, any other segment goes down; OutsideProject when ".." leaves
\* the project root.
OutsideProject == << "(outside)" >>

RECURSIVE ResolveFrom(_, _)
ResolveFrom(directory, linkPath) ==
  IF linkPath = <<>> THEN directory
  ELSE IF Head(linkPath) = "." THEN ResolveFrom(directory, Tail(linkPath))
  ELSE IF Head(linkPath) = ".."
  THEN IF directory = <<>> THEN OutsideProject
       ELSE ResolveFrom(SubSeq(directory, 1, Len(directory) - 1), Tail(linkPath))
  ELSE ResolveFrom(Append(directory, Head(linkPath)), Tail(linkPath))

\* The resolved path of the link is one of the project's file paths (letter
\* case aside, as the validator compares).
ResolvedPathPresent(md, link) ==
  LET resolved == ResolveFrom(sourceDirOf(md.filePath), link.linkPath)
  IN \E f \in linkCheck.allFiles : pathToLowerCase(f) = pathToLowerCase(resolved)

HighBrokenLinks(md, n) ==
  { j \in 1..Len(linkCheck.inconsistencies) :
      /\ linkCheck.inconsistencies[j].type = "broken-link"
      /\ linkCheck.inconsistencies[j].severity = "high"
      /\ linkCheck.inconsistencies[j].filePath = md.filePath
      /\ linkCheck.inconsistencies[j].link = n }

\* A link that names a file: internal, and not an anchor into its own document.
LinksToFile(link) == link.isInternal /\ ~(link.linkPath = <<>> /\ link.anchor # NoAnchor)

\* C22: after validateLinks, every internal link whose path, resolved against
\* the directory of its document, is none of the project's file paths has
\* exactly one broken-link issue of severity high located in that document,
\* and a link whose resolved path is one of them has none.
C22_BrokenLinkPerAbsentTarget ==
  linkCheck.pc = "returned" =>
    \A d \in 1..Len(linkCheck.parsedMarkdown) :
      LET md == linkCheck.parsedMarkdown[d]
      IN \A n \in 1..Len(md.links) :
           LinksToFile(md.links[n]) =>
             Cardinality(HighBrokenLinks(md, n)) =
               (IF ResolvedPathPresent(md, md.links[n]) THEN 0 ELSE 1)

\* The same for links whose path holds no "." or ".." segment.
C22_PlainPathsOnly ==
  linkCheck.pc = "returned" =>
    \A d \in 1..Len(linkCheck.parsedMarkdown) :
      LET md == linkCheck.parsedMarkdown[d]
      IN \A n \in 1..Len(md.links) :
           (/\ LinksToFile(md.links[n])
            /\ \A j \in 1..Len(md.links[n].linkPath) : md.links[n].linkPath[j] \notin {".", ".."}) =>
             Cardinality(HighBrokenLinks(md, n)) =
               (IF ResolvedPathPresent(md, md.links[n]) THEN 0 ELSE 1)

\* ---------------------------------------------------------------- C23
\* The lines of the documents, as <<document, line number>>.
LinePositions ==
  { q \in (1..Len(numerical.files)) \X (1..MaxLines) : q[2] <= Len(numerical.files[q[1]]) }

LineAt(position) == numerical.files[position[1]][position[2]]

\* The comparison key of a line: times in milliseconds, plain numbers as they
\* are.
ComparisonKey(line) ==
  IF line.unit = "s" THEN <<line.value * 1000, "ms">>
  ELSE IF line.unit = "ms" THEN <<line.value, "ms">>
  ELSE <<line.value, "none">>

\* Spellings of one keyword.
SameKeyword == { {"timeout", "Time-outs"}, {"retries"} }

SubGroups(spellings) ==
  { ComparisonKey(LineAt(position)) : position \in { q \in LinePositions : LineAt(q).keyword \in spellings } }

ReportedFor(spellings) ==
  { j \in 1..Len(numerical.inconsistencies) :
      /\ numerical.inconsistencies[j].type = "numerical-inconsistency"
      /\ numerical.inconsistencies[j].keyword \in spellings }

\* C23: for each keyword the detector reports exactly one inconsistency when
\* the values of the keyword fall into more than one (normalized value, base
\* unit) sub-group, and none otherwise; the inconsistency has severity medium
\* when no line of the keyword holds a qualifier word.  So 3s against 5000ms
\* is reported once, and 5s against 5000ms is not reported.
C23_OneInconsistencyPerKeyword ==
  numerical.pc = "returned" =>
    \A spellings \in SameKeyword :
      /\ Cardinality(ReportedFor(spellings)) =
           (IF Cardinality(SubGroups(spellings)) > 1 THEN 1 ELSE 0)
      /\ (\A position \in LinePositions :
            LineAt(position).keyword \in spellings => LineAt(position).words = {})
           => \A j \in ReportedFor(spellings) : numerical.inconsistencies[j].severity = "medium"

\* `timeout: 3s` in one document and `timeout: 5000ms` in the other, reported
\* as one inconsistency of severity medium.
C23_Witness ==
  /\ numerical.pc = "returned"
  /\ numerical.files =
       << << [keyword |-> "timeout", value |-> 3, unit |-> "s", words |-> {}] >>,
          << [keyword |-> "timeout", value |-> 5000, unit |-> "ms", words |-> {}] >> >>
  /\ Len(numerical.inconsistencies) = 1
  /\ numerical.inconsistencies[1].severity = "medium"
  /\ numerical.inconsistencies[1].filePath = 1

\* ---------------------------------------------------------------- C24
\* The lines of the documents that mention the public name, as <<document,
\* line number>>.
MentionsOfPublicName ==
  { q \in (1..Len(coverage.parsedMarkdown)) \X (1..MaxDocLines) :
      /\ q[2] <= Len(coverage.parsedMarkdown[q[1]].lines)
      /\ coverage.parsedMarkdown[q[1]].lines[q[2]].kind # "none" }

\* Mentioned in a document at a documentation-shaped path, or mentioned at
\* least twice anywhere.
CountsAsDocumented ==
  \/ \E q \in MentionsOfPublicName : matchesDocPatterns(coverage.parsedMarkdown[q[1]].filePath)
  \/ Cardinality(MentionsOfPublicName) >= 2

UndocumentedIssuesFor(n) ==
  { j \in 1..Len(coverage.inconsistencies) :
      /\ coverage.inconsistencies[j].type = "undocumented-export"
      /\ coverage.inconsistencies[j].export = n }

\* C24: after the coverage analysis, a public export that counts as
\* documented has no undocumented-export issue and every other public export
\* has exactly one.
C24_DocumentedExportsHaveNoIssue ==
  coverage.pc = "returned" =>
    \A n \in 1..Len(coverage.exports) :
      coverage.exports[n] = PublicName =>
        Cardinality(UndocumentedIssuesFor(n)) = (IF CountsAsDocumented THEN 0 ELSE 1)

\* The same when no two mentions follow each other in the order of the scan,
\* in one document or across the two.
C24_SingleMentionOnly ==
  (coverage.pc = "returned" /\ Cardinality(MentionsOfPublicName) <= 1) =>
    \A n \in 1..Len(coverage.exports) :
      coverage.exports[n] = PublicName =>
        Cardinality(UndocumentedIssuesFor(n)) = (IF CountsAsDocumented THEN 0 ELSE 1)

\* ---------------------------------------------------------------- C25
\* File reads in flight: the getFileSize being awaited and the reads the
\* workers are waiting for.
ReadsInFlight ==
  (IF reader.sizing # 0 THEN 1 ELSE 0)
    + Cardinality({ w \in ReadWorkers : reader.workers[w].state = "reading" })

\* C25: at every moment of a readFilesWithProgress call at most `concurrency`
\* file reads are in flight, whatever the number of files.
C25_BoundedConcurrency ==
  reader.pc # "idle" => ReadsInFlight <= reader.concurrency

\* More files than the default limit of 4, the limit reached, and a worker
\* has already moved on to a further file.
C25_Witness ==
  /\ reader.concurrency = 4
  /\ reader.files > 4
  /\ reader.currentIndex > 4
  /\ ReadsInFlight = 4

\* ---------------------------------------------------------------- C26
Submitted(task) == pool.promise[task] # "none"
Settled(task) == pool.promise[task] \in {"resolved", "rejected"}

\* C26: the promise of every task submitted to the pool is eventually
\* resolved or rejected, also when its worker raises an error event, when
\* terminate() is called while it is queued or active, and when it was
\* submitted before initialize().
C26_EveryTaskSettles == \A task \in Tasks : Submitted(task) ~> Settled(task)

\* The same for a pool that sees no error event and no terminate() and gets
\* no task before it is initialized.
Undisturbed == ~pool.errorEvents /\ ~pool.terminated /\ ~pool.submittedEarly

C26_UndisturbedTasksSettle ==
  ([]Undisturbed) => \A task \in Tasks : Submitted(task) ~> Settled(task)

\* ---------------------------------------------------------------- C27
\* C27: every worker has at most one task in flight, the active tasks are
\* never more than the pool size, and the pool size is at most 4.
C27_OneTaskPerWorker ==
  /\ \A i \in 1..pool.workers : Len(pool.inbox[i]) <= 1
  /\ Cardinality(pool.activeTasks) <= pool.poolSize
  /\ pool.poolSize <= 4

\* The same as long as no worker has raised an error event.
C27_WithoutErrorEvents == ~pool.errorEvents => C27_OneTaskPerWorker

\* ---------------------------------------------------------------- C28
\* C28: once stop() has returned and until start() is called again, no step
\* invokes onChanges, also when a scan was under way at the stop.
C28_NoChangesAfterStop == watcher.stopped => watcher.callback # "onChanges"

\* The same for a watcher whose start() and stop() are never called while a
\* scan is under way.
C28_StopBetweenScans == ~watcher.overlapped => C28_NoChangesAfterStop

\* ---------------------------------------------------------------- C29
\* C29: at most one scan is in progress and at most one polling timer is
\* alive, whatever the sequence of start(), stop() and timer ticks.
C29_OneScanOneTimer ==
  /\ watcher.starting + watcher.scanning <= 1
  /\ Cardinality(watcher.timers) <= 1

\* The same for a watcher whose start() and stop() are never called while a
\* scan is under way.
C29_CallsBetweenScans == ~watcher.overlapped => C29_OneScanOneTimer

\* ---------------------------------------------------------------- C30
DeltaCountsOfCurrent ==
  delta.newCount + delta.persistingCount + delta.reintroducedCount + delta.ignoredCount

\* C30: in every DeltaSummary the counts newCount, persistingCount,
\* reintroducedCount and ignoredCount add up to the number of issues in the
\* current analysis result.
C30_CountsSumToCurrentIssues ==
  delta.computed => DeltaCountsOfCurrent = Len(currentResult.inconsistencies)

\* The four counts add up to the number of distinct fingerprints of the
\* current result, which is its number of issues when no two of them share
\* a fingerprint.
C30_CountsSumToCurrentFingerprints ==
  delta.computed => DeltaCountsOfCurrent = Cardinality(CurrentFingerprints)

====
